---- MODULE Spec2Model ----
(***************************************************************************)
(* A model of the evaluator of the ash interpreter (src/src/eval): values  *)
(* with shared containers, structural and reference equality, checked      *)
(* integer arithmetic, the binder, `for` iteration and the `?` catch form. *)
(*                                                                         *)
(* One module holds several specifications over the same variables:        *)
(*   Spec        a list and an object copied into several handles, then    *)
(*               written through them (index, op-, range-index, property   *)
(*               assignments, calls)                                       *)
(*   SpecArith   apply_binary_operation on pairs of integers               *)
(*   SpecCatch   `e?` on every outcome of e                                *)
(*   SpecFor     objects built by insertions and iterated by `for`         *)
(*   SpecEq      `==` on pairs of objects and lists, both operand orders   *)
(*   SpecIndex   `xs[i]` and `xs[i]?` on every list and integer            *)
(*   SpecConcat  `a + b` on pairs of lists                                 *)
(*   SpecBind    binds of destructuring patterns and parameter lists       *)
(* A specification leaves the variables of the others at their idle value. *)
(***************************************************************************)
EXTENDS Integers, Sequences, FiniteSets, TLC

VARIABLES
    heap,     \* the containers behind the Arc handles: heap[h] is a list or an object
    scopes,   \* the ScopeStack: a sequence of scopes, each a map name -> value
    res,      \* the outcome of the last expression or statement evaluated
    last,     \* what the last step evaluated (the statement or expression and its inputs)
    hist      \* ghost: facts recorded by earlier steps (aliases made, loop visits)

vars == <<heap, scopes, res, last, hist>>

----------------------------------------------------------------------------
(* Bounds of the model.                                                    *)

\* i64 is modelled at this width (TLC's integers have 32 bits): the checked
\* operations below are written for any width.
IntBits == 5
\* The longest list or object drawn as an input.
MaxLen == 2
\* The longest chain of error wrappers around a root error.
MaxChain == 3
\* The most insertions made into an object before it is iterated.
MaxInserts == 3
\* The most writes made through the handles of a shared container.
MaxWrites == 2
\* The operations on the scopes of SpecScope.
MaxScopeOps == 4
\* The programs run one after the other on the same globals.
MaxPrograms == 2
\* The steps of SpecClosure: definitions, pushes, declarations and calls.
MaxClosureSteps == 5
MaxFrameSteps == 4
MaxThisSteps == 3
MaxRangeLen == 3
MaxRangeWrites == 1
MaxPattern == 3
MaxDestructures == 2
MaxElements == 2
MaxParams == 3
MaxArgs == 2
MaxRounds == 3
MaxSlotWrites == 2
MaxParamList == 3
MaxDepth == 3
MaxText == 5
MaxTokens == 4
MaxEntries == 2
MaxTargets == 3

IntMin == -(2 ^ (IntBits - 1))
IntMax == (2 ^ (IntBits - 1)) - 1
I64 == IntMin .. IntMax

----------------------------------------------------------------------------
(* Values (eval/value.rs, used throughout eval/mod.rs).  A list, an object  *)
(* and a function are handles; strings are byte sequences.                 *)

VNull == [t |-> "null"]
VBool(b) == [t |-> "bool", b |-> b]
VInt(n) == [t |-> "int", n |-> n]
VStr(s) == [t |-> "str", s |-> s]
VList(h) == [t |-> "list", h |-> h]
VObject(h) == [t |-> "object", h |-> h]
VFunc(f) == [t |-> "func", f |-> f]
VBuiltin(name) == [t |-> "builtin", name |-> name]

IsContainer(v) == v.t \in {"list", "object"}

\* SourcedValue{v, source}: a value that was read out of an object carries
\* that object as its field `source`; a value without the field has none.
HasSource(sv) == "source" \in DOMAIN sv
ValueOf(sv) == [x \in DOMAIN sv \ {"source"} |-> sv[x]]
new_val_ref_with_no_source(v) == ValueOf(v)
new_val_ref_with_source(v, source) ==
    [x \in DOMAIN v \cup {"source"} |-> IF x = "source" THEN source ELSE v[x]]

\* error::render_type as used by eq's type-mismatch message.
render_type(v) == IF v.t \in {"func", "builtin"} THEN "function" ELSE v.t

\* Outcomes of an evaluation: a value, an error chain (outermost wrapper
\* first, root last), or a panic of the interpreter.
Ok(v) == [k |-> "ok", v |-> v]
Err(chain) == [k |-> "err", e |-> chain]
Panic == [k |-> "panic"]
\* A subtraction on usize below zero: a panic in a build with overflow
\* checks, a wrapped value in a build without.
UsizeOverflow == [k |-> "overflow"]
Idle == [k |-> "idle"]

\* `.context(Wrapper)` on a result.
Context(w, r) == IF r.k = "err" THEN [r EXCEPT !.e = <<w>> \o @] ELSE r
\* `.context(EvalFuncCallFailed{func_name, call_loc})`, and the same of
\* EvalBuiltinFuncCallFailed: the fields of the wrappers of a chain are kept
\* in `calls`, the outermost first.
CallsOf(r) == IF "calls" \in DOMAIN r THEN r.calls ELSE <<>>
ContextCall(w, func_name, call_loc, r) ==
    IF r.k = "err"
    THEN [x \in DOMAIN r \cup {"calls"} |->
            CASE x = "e" -> <<w>> \o r.e
              [] x = "calls" ->
                    <<[func_name |-> func_name, call_loc |-> call_loc]>> \o CallsOf(r)
              [] OTHER -> r[x]]
    ELSE r
\* new_loc_err: Error::AtLoc{source: Box::new(source), ..}
AtLoc(kind) == Err(<<"AtLoc", kind>>)
\* An error that carries a name (AlreadyInBinding{name}, Undefined{name}, ..).
AtLocName(kind, name) == [k |-> "err", e |-> <<"AtLoc", kind>>, name |-> name]
\* Error::AlreadyInScope{name, prev_line, prev_col}.
AlreadyInScope(name, prev) ==
    [k |-> "err", e |-> <<"AtLoc", "AlreadyInScope">>, name |-> name, prev |-> prev]

----------------------------------------------------------------------------
(* Byte strings and the order of BTreeMap<String, _>.                      *)

RECURSIVE LexLess(_, _)
LexLess(s, t) ==
    IF s = <<>> THEN t # <<>>
    ELSE IF t = <<>> THEN FALSE
    ELSE IF Head(s) = Head(t) THEN LexLess(Tail(s), Tail(t))
    ELSE Head(s) < Head(t)

\* An object's properties are a sequence of entries [key, val] in the order
\* BTreeMap iterates them.
HasKey(props, key) == \E i \in 1..Len(props) : props[i].key = key
GetKey(props, key) == props[CHOOSE i \in 1..Len(props) : props[i].key = key].val
KeysOf(props) == {props[i].key : i \in 1..Len(props)}

\* BTreeMap::insert: replace the value of an existing key, else place the
\* entry before the first greater key.
RECURSIVE BTreeInsert(_, _, _)
BTreeInsert(props, key, val) ==
    IF props = <<>> THEN <<[key |-> key, val |-> val]>>
    ELSE IF Head(props).key = key
        THEN <<[key |-> key, val |-> val]>> \o Tail(props)
    ELSE IF LexLess(key, Head(props).key)
        THEN <<[key |-> key, val |-> val]>> \o props
    ELSE <<Head(props)>> \o BTreeInsert(Tail(props), key, val)

----------------------------------------------------------------------------
(* The heap of containers.  heap[h] is [k |-> "list", items |-> <<...>>] or *)
(* [k |-> "object", props |-> <<...>>]; a handle is an index into heap.     *)

ListCell(items) == [k |-> "list", items |-> items]
ObjectCell(props) == [k |-> "object", props |-> props]
\* value::Func{name, args, collect_args, stmts, closure}; the closure is a
\* ScopeStack, a sequence of handles of scopes.
Func(name, args, collect_args, stmts, closure) ==
    [k |-> "func", name |-> name, args |-> args, collect_args |-> collect_args,
     stmts |-> stmts, closure |-> closure]

\* value::new_list / value::new_object: a fresh Arc<Mutex<..>>.
Alloc(h, cell) == Append(h, cell)
NewHandle(h) == Len(h) + 1

\* value::ref_eq on two handles: the same Arc.
ValueRefEq(a, b) == a = b

\* lock_deref!: try_lock().unwrap() of a container's mutex; `held` is the set
\* of handles whose guard is alive.  A second acquisition panics.
CanLock(a, held) == a \notin held

\* eval/mod.rs ref_eq: defined for list/list, object/object and
\* function/function; None for every other pair.
Some(v) == [some |-> TRUE, v |-> v]
None == [some |-> FALSE]

ref_eq(lhs, rhs) ==
    IF lhs.t = "list" /\ rhs.t = "list" THEN Some(ValueRefEq(lhs.h, rhs.h))
    ELSE IF lhs.t = "object" /\ rhs.t = "object" THEN Some(ValueRefEq(lhs.h, rhs.h))
    ELSE IF lhs.t = "func" /\ rhs.t = "func" THEN Some(ValueRefEq(lhs.f, rhs.f))
    ELSE None

\* eq's short cut on identical handles, before any lock is taken.
EqNoShortcut(a, b) == FALSE
EqShortcut(a, b) == ValueRefEq(a, b)

\* eval/mod.rs eq: "true", "false", "err" (a type mismatch) or "panic" (a
\* lock taken twice).  Lists compare by length and then item by item;
\* objects by size and then key by key in the order of the left operand.
RECURSIVE eq(_, _, _, _)
RECURSIVE EqItems(_, _, _, _, _)
RECURSIVE EqProps(_, _, _, _, _)
eq(h, lhs, rhs, held) ==
    IF lhs.t = "null" /\ rhs.t = "null" THEN "true"
    ELSE IF lhs.t = "bool" /\ rhs.t = "bool" THEN
        IF lhs.b = rhs.b THEN "true" ELSE "false"
    ELSE IF lhs.t = "int" /\ rhs.t = "int" THEN
        IF lhs.n = rhs.n THEN "true" ELSE "false"
    ELSE IF lhs.t = "str" /\ rhs.t = "str" THEN
        IF lhs.s = rhs.s THEN "true" ELSE "false"
    ELSE IF lhs.t = "list" /\ rhs.t = "list" THEN
        IF EqShortcut(lhs.h, rhs.h) THEN "true"
        ELSE IF ~CanLock(lhs.h, held) \/ ~CanLock(rhs.h, held) THEN "panic"
        ELSE IF Len(h[lhs.h].items) # Len(h[rhs.h].items) THEN "false"
        ELSE EqItems(h, h[lhs.h].items, h[rhs.h].items, 1,
                     held \cup {lhs.h, rhs.h})
    ELSE IF lhs.t = "object" /\ rhs.t = "object" THEN
        IF EqShortcut(lhs.h, rhs.h) THEN "true"
        ELSE IF ~CanLock(lhs.h, held) \/ ~CanLock(rhs.h, held) THEN "panic"
        ELSE IF Len(h[lhs.h].props) # Len(h[rhs.h].props) THEN "false"
        ELSE EqProps(h, h[lhs.h].props, h[rhs.h].props, 1,
                     held \cup {lhs.h, rhs.h})
    ELSE "err"

EqItems(h, xs, ys, i, held) ==
    IF i > Len(xs) THEN "true"
    ELSE LET equal == eq(h, xs[i], ys[i], held)
         IN IF equal = "true" THEN EqItems(h, xs, ys, i + 1, held) ELSE equal

EqProps(h, xs, ys, i, held) ==
    IF i > Len(xs) THEN "true"
    ELSE IF ~HasKey(ys, xs[i].key) THEN "false"
    ELSE LET equal == eq(h, xs[i].val, GetKey(ys, xs[i].key), held)
         IN IF equal = "true" THEN EqProps(h, xs, ys, i + 1, held) ELSE equal

----------------------------------------------------------------------------
(* i64 arithmetic (std): the checked operations return None on overflow    *)
(* and on division by zero; `%` panics where checked_rem would return None. *)

InI64(n) == IntMin <= n /\ n <= IntMax
Abs(n) == IF n < 0 THEN -n ELSE n
\* Rust's `/` and `%` truncate towards zero.
TruncDiv(a, b) ==
    LET q == Abs(a) \div Abs(b) IN IF (a < 0) = (b < 0) THEN q ELSE -q
TruncRem(a, b) == a - b * TruncDiv(a, b)

checked_add(a, b) == IF InI64(a + b) THEN Some(a + b) ELSE None
checked_sub(a, b) == IF InI64(a - b) THEN Some(a - b) ELSE None
checked_mul(a, b) == IF InI64(a * b) THEN Some(a * b) ELSE None
checked_div(a, b) ==
    IF b = 0 THEN None
    ELSE IF InI64(TruncDiv(a, b)) THEN Some(TruncDiv(a, b)) ELSE None
\* `a % b` on i64: panics for b = 0 and for i64::MIN % -1.
RemPanics(a, b) == b = 0 \/ (a = IntMin /\ b = -1)

ArithOps == {"Sum", "Sub", "Mul", "Div", "Mod"}

\* The result of an operator application: an outcome and the heap after it
\* (list concatenation allocates).
Applied(out, h) == [out |-> out, heap |-> h]

\* new_int_overflow / new_invalid_op_types of apply_binary_operation.
IntOverflow == AtLoc("Runtime")
InvalidOpTypes == AtLoc("InvalidBinOpTypes")

OfChecked(r) == IF r.some THEN Ok(VInt(r.v)) ELSE IntOverflow

\* BinaryOp::Sum on two lists: lock and clone a, lock and clone b, then a
\* new list of the concatenation.
ConcatLists(h, a, b) ==
    Applied(Ok(VList(NewHandle(h))),
            Alloc(h, ListCell(h[a].items \o h[b].items)))

apply_binary_operation(h, op, lhs, rhs, held) ==
    IF op \in {"Eq", "Ne"} THEN
        LET r == eq(h, lhs, rhs, held)
        IN IF r = "panic" THEN Applied(Panic, h)
           ELSE IF r = "err" THEN Applied(AtLoc("Runtime"), h)
           ELSE Applied(Ok(VBool(IF op = "Eq" THEN r = "true" ELSE r # "true")), h)
    ELSE IF op \in {"RefEq", "RefNe"} THEN
        LET r == ref_eq(lhs, rhs)
        IN IF r.some
           THEN Applied(Ok(VBool(IF op = "RefEq" THEN r.v ELSE ~r.v)), h)
           ELSE Applied(InvalidOpTypes, h)
    ELSE IF op = "Sum" THEN
        IF lhs.t = "int" /\ rhs.t = "int"
            THEN Applied(OfChecked(checked_add(lhs.n, rhs.n)), h)
        ELSE IF lhs.t = "str" /\ rhs.t = "str"
            THEN Applied(Ok(VStr(lhs.s \o rhs.s)), h)
        ELSE IF lhs.t = "list" /\ rhs.t = "list" THEN
            IF ~CanLock(lhs.h, held) \/ ~CanLock(rhs.h, held)
            THEN Applied(Panic, h)
            ELSE ConcatLists(h, lhs.h, rhs.h)
        ELSE Applied(InvalidOpTypes, h)
    ELSE IF op \in {"Sub", "Mul", "Div", "Mod"} THEN
        IF lhs.t = "int" /\ rhs.t = "int" THEN
            IF op = "Sub" THEN Applied(OfChecked(checked_sub(lhs.n, rhs.n)), h)
            ELSE IF op = "Mul" THEN Applied(OfChecked(checked_mul(lhs.n, rhs.n)), h)
            ELSE IF op = "Div" THEN Applied(OfChecked(checked_div(lhs.n, rhs.n)), h)
            ELSE IF RemPanics(lhs.n, rhs.n) THEN Applied(Panic, h)
            ELSE Applied(Ok(VInt(TruncRem(lhs.n, rhs.n))), h)
        ELSE Applied(InvalidOpTypes, h)
    ELSE IF op \in {"And", "Or"} THEN
        IF lhs.t = "bool" /\ rhs.t = "bool"
        THEN Applied(Ok(VBool(IF op = "And" THEN lhs.b /\ rhs.b ELSE lhs.b \/ rhs.b)), h)
        ELSE Applied(InvalidOpTypes, h)
    ELSE \* Gt, Gte, Lt, Lte
        IF lhs.t = "int" /\ rhs.t = "int"
        THEN Applied(Ok(VBool(CASE op = "Gt" -> lhs.n > rhs.n
                                [] op = "Gte" -> lhs.n >= rhs.n
                                [] op = "Lt" -> lhs.n < rhs.n
                                [] OTHER -> lhs.n <= rhs.n)), h)
        ELSE Applied(InvalidOpTypes, h)


----------------------------------------------------------------------------
(* The AST (ast.rs).  Names and strings are byte sequences.                *)

ENull == [e |-> "Null"]
EBool(b) == [e |-> "Bool", b |-> b]
EInt(n) == [e |-> "Int", n |-> n]
EStr(s) == [e |-> "Str", s |-> s]
EInterpStr(s, interpolation_slots) ==
    [e |-> "Str", s |-> s, interpolation_slots |-> interpolation_slots]
EVar(name) == [e |-> "Var", name |-> name]
EBin(op, lhs, rhs) == [e |-> "BinaryOp", op |-> op, lhs |-> lhs, rhs |-> rhs]
EList(items, collect) == [e |-> "List", items |-> items, collect |-> collect]
EIndex(expr, location) == [e |-> "Index", expr |-> expr, location |-> location]
ERangeIndex(expr, start, end) ==
    [e |-> "RangeIndex", expr |-> expr, start |-> start, end |-> end]
EObject(props) == [e |-> "Object", props |-> props]
EProp(expr, name) == [e |-> "Prop", expr |-> expr, name |-> name]
EFunc(args, collect_args, stmts) ==
    [e |-> "Func", args |-> args, collect_args |-> collect_args, stmts |-> stmts]
ECall(func, args) == [e |-> "Call", func |-> func, args |-> args]
EUnary(op, expr) == [e |-> "UnaryOp", op |-> op, expr |-> expr]
ECatch(expr) == [e |-> "CatchAsBool", expr |-> expr]

\* ListItem and PropItem.
Item(expr) == [expr |-> expr, is_spread |-> FALSE]
SpreadItem(expr) == [expr |-> expr, is_spread |-> TRUE]
Pair(name, value) == [p |-> "Pair", name |-> name, value |-> value]
Single(expr, is_spread, collect) ==
    [p |-> "Single", expr |-> expr, is_spread |-> is_spread, collect |-> collect]

Underscore == <<95>>

\* The Location (line, col) of an Expr (RawExpr, Location): nodes are
\* written without one, which stands for (0, 0), unless a property is
\* about it.
Loc(line, col) == <<line, col>>
NoLoc == Loc(0, 0)
At(expr, loc) == [x \in DOMAIN expr \cup {"loc"} |-> IF x = "loc" THEN loc ELSE expr[x]]
LocOf(expr) == IF "loc" \in DOMAIN expr THEN expr.loc ELSE NoLoc

----------------------------------------------------------------------------
(* ScopeStack (eval/scope.rs): Vec<Arc<Mutex<Scope>>>, a sequence of       *)
(* handles of scopes, the top one last.  A scope is a cell of the heap: a  *)
(* map from a name to (value, location of the definition, mutability).     *)

\* Mutability.
Const == "Const"
Var == "Var"

EmptyScope == <<>>
ScopeCell(scope) == [k |-> "scope", vars |-> scope]
ScopeEntry(v, loc, m) == [v |-> v, loc |-> loc, m |-> m]
ScopeInsert(scope, name, entry) ==
    [n \in DOMAIN scope \cup {name} |-> IF n = name THEN entry ELSE scope[n]]

\* The scope behind the i-th handle of a stack.
ScopeAt(h, scs, i) == h[scs[i]].vars

\* ScopeStack's derived Clone: a new Vec of the same Arcs, so the same
\* scopes.
CloneBottomScope(scs) == <<scs[1]>>
clone(scs) == scs

\* new_from_push: a new stack of the same scopes and one new scope.
new_from_push(h, scs, scope) ==
    [heap |-> Alloc(h, ScopeCell(scope)), scopes |-> Append(scs, NewHandle(h))]

\* get: the value of the name in the topmost scope that holds it.
RECURSIVE GetFrom(_, _, _, _)
GetFrom(h, scs, i, name) ==
    IF i = 0 THEN None
    ELSE IF name \in DOMAIN ScopeAt(h, scs, i) THEN Some(ScopeAt(h, scs, i)[name].v)
    ELSE GetFrom(h, scs, i - 1, name)
get(h, scs, name) == GetFrom(h, scs, Len(scs), name)

\* declare's test `cur_scope.get(name)`: the scope is the last of the stack.
InCurScopeNever(h, scs, name) == FALSE
InCurScope(h, scs, name) == name \in DOMAIN ScopeAt(h, scs, Len(scs))

\* declare: `self.0.last().expect(..)` panics on a stack of no scopes; else
\* it fails with the location of the previous definition if the top scope
\* holds the name, else inserts it there.
declare(h, scs, name, loc, v, m) ==
    IF scs = <<>>
    THEN [ok |-> FALSE, panic |-> TRUE, loc |-> loc, heap |-> h]
    ELSE IF InCurScope(h, scs, name)
    THEN [ok |-> FALSE, panic |-> FALSE,
          loc |-> ScopeAt(h, scs, Len(scs))[name].loc, heap |-> h]
    ELSE [ok |-> TRUE, panic |-> FALSE, loc |-> loc,
          heap |-> [h EXCEPT ![scs[Len(scs)]].vars =
                                 ScopeInsert(@, name, ScopeEntry(v, loc, m))]]

\* scope::set: the slot takes the value.
set(h, scope, name, v) == [h EXCEPT ![scope].vars[name].v = v]

\* assign: replaces the value in the topmost scope that holds the name; a
\* const binding there ends the search with Error::Const.
RECURSIVE AssignFrom(_, _, _, _, _)
AssignFrom(h, scs, i, name, v) ==
    IF i = 0 THEN [ok |-> FALSE, err |-> "Undefined", heap |-> h]
    ELSE IF name \in DOMAIN ScopeAt(h, scs, i) THEN
        IF ScopeAt(h, scs, i)[name].m = Const
        THEN [ok |-> FALSE, err |-> "Const", heap |-> h]
        ELSE [ok |-> TRUE, err |-> "none", heap |-> set(h, scs[i], name, v)]
    ELSE AssignFrom(h, scs, i - 1, name, v)
assign(h, scs, name, v) == AssignFrom(h, scs, Len(scs), name, v)

----------------------------------------------------------------------------
(* Errors (eval/error.rs as used by eval/mod.rs and main.rs): a chain is a  *)
(* sequence of kinds, each the `source` of the one before it.  Only the    *)
(* last element can be an error of another crate.                          *)

ForeignKinds == {"TryFromIntError", "FromUtf8Error"}
IsLocal(kind) == kind \notin ForeignKinds

\* root_error: follow `source` while it is a local Box<Error>.
RootErrorOutermost(chain) == chain[1]
RECURSIVE root_error(_)
root_error(chain) ==
    IF Len(chain) = 1 THEN chain[1]
    ELSE IF IsLocal(chain[2]) THEN root_error(Tail(chain))
    ELSE chain[1]

\* eval_expr, RawExpr::CatchAsBool, on the outcome of the inner expression.
CatchAsBool(h, inner) ==
    IF inner.k = "ok" THEN
        Applied(Ok(VList(NewHandle(h))),
                Alloc(h, ListCell(<<inner.v, VBool(TRUE)>>)))
    ELSE IF inner.k = "panic" THEN Applied(Panic, h)
    ELSE IF root_error(inner.e) = "Runtime" THEN
        Applied(Ok(VList(NewHandle(h))),
                Alloc(h, ListCell(<<VNull, VBool(FALSE)>>)))
    ELSE Applied(Context("EvalCatchAsBoolFailed", inner), h)

\* String::from_utf8 on the strings of the model: every byte below 128.
IsUtf8(s) == \A i \in 1..Len(s) : s[i] < 128


----------------------------------------------------------------------------
(* eval_expr (eval/mod.rs).  An evaluation returns Applied(out, heap): the  *)
(* outcome and the heap after the allocations made on the way.             *)

\* With([x \in {e} |-> body]) is body with x bound to the value of e: the
\* `let x = e;` of the source.
With(f) == f[CHOOSE x \in DOMAIN f : TRUE]

\* eval_expr, eval_stmt and bind_next call each other; Eval is the one
\* recursive operator that carries these calls, and each of the three is a
\* call of it.  The match of each is defined below under the name of the
\* function followed by `_match`.
RECURSIVE Eval(_)
eval_expr(h, scs, expr) ==
    Eval([f |-> "eval_expr", h |-> h, scs |-> scs, expr |-> expr])
eval_stmt(h, scs, stmt) ==
    Eval([f |-> "eval_stmt", h |-> h, scs |-> scs, stmt |-> stmt])
bind_next(h, scs, names, lhs, rhs, op, bind_type) ==
    Eval([f |-> "bind_next", h |-> h, scs |-> scs, names |-> names, lhs |-> lhs,
          rhs |-> rhs, op |-> op, bind_type |-> bind_type])

RECURSIVE eval_expr_to_i64(_, _, _)
RECURSIVE eval_expr_to_index(_, _, _)
RECURSIVE eval_expr_to_str(_, _, _)
RECURSIVE eval_list_items(_, _, _, _, _)
RECURSIVE EvalObjectProps(_, _, _, _, _)
RECURSIVE eval_call(_, _, _, _, _)
RECURSIVE eval_stmts(_, _, _, _)

\* The loop of a spread: insert every entry of `src` into `vals`.
RECURSIVE InsertAll(_, _, _)
InsertAll(vals, src, i) ==
    IF i > Len(src) THEN vals
    ELSE InsertAll(BTreeInsert(vals, src[i].key, src[i].val), src, i + 1)

\* match_eval_expr!: eval_expr(..).context(EvalExprFailed)
MatchEvalExpr(h, scs, e) ==
    With([r \in {eval_expr(h, scs, e)} |->
        Applied(Context("EvalExprFailed", r.out), r.heap)])

eval_expr_to_i64(h, scs, e) ==
    With([r \in {MatchEvalExpr(h, scs, e)} |->
        IF r.out.k # "ok" THEN r
        ELSE IF r.out.v.t = "int" THEN r
        ELSE Applied(AtLoc("IncorrectType"), r.heap)])

\* A negative index is its own error kind, NegativeIndex.
NegativeIndexAsRuntime == AtLoc("Runtime")
NegativeIndexError == AtLoc("NegativeIndex")

eval_expr_to_index(h, scs, e) ==
    With([r \in {eval_expr_to_i64(h, scs, e)} |->
        IF r.out.k # "ok"
        THEN Applied(Context("EvalIndexToI64Failed", r.out), r.heap)
        ELSE IF r.out.v.n < 0 THEN Applied(NegativeIndexError, r.heap)
        ELSE r])

eval_expr_to_str(h, scs, e) ==
    With([r \in {MatchEvalExpr(h, scs, e)} |->
        IF r.out.k # "ok" THEN r
        ELSE IF r.out.v.t # "str" THEN Applied(AtLoc("IncorrectType"), r.heap)
        ELSE IF ~IsUtf8(r.out.v.s)
            THEN Applied(Err(<<"AtLoc", "StringConstructionFailed", "FromUtf8Error">>),
                         r.heap)
        ELSE r])

\* Vec::get(index) of a list read: the element, or the out-of-bounds error.
ListGet(items, index) ==
    IF index < Len(items) THEN Ok(items[index + 1]) ELSE AtLoc("Runtime")

\* eval_list_items: the values of the items, a spread item inlined.
eval_list_items(h, scs, items, i, vals) ==
    IF i > Len(items) THEN Applied(Ok(vals), h)
    ELSE With([r \in {eval_expr(h, scs, items[i].expr)} |->
        IF r.out.k # "ok"
            THEN Applied(Context("EvalListItemFailed", r.out), r.heap)
        ELSE IF ~items[i].is_spread
            THEN eval_list_items(r.heap, scs, items, i + 1, Append(vals, r.out.v))
        ELSE IF r.out.v.t = "list"
            THEN eval_list_items(r.heap, scs, items, i + 1,
                                 vals \o r.heap[r.out.v.h].items)
        ELSE Applied(AtLoc("SpreadNonListInList"), r.heap)])

\* A pair of an object literal, its name evaluated.
EvalPropValue(scs, props, i, vals, name) ==
    IF name.out.k # "ok"
    THEN Applied(Context("EvalPropNameFailed", name.out), name.heap)
    ELSE With([v \in {eval_expr(name.heap, scs, props[i].value)} |->
        IF v.out.k # "ok"
        THEN Applied(Context("EvalPropValueFailed", v.out), v.heap)
        ELSE EvalObjectProps(v.heap, scs, props, i + 1,
                             BTreeInsert(vals, name.out.v.s, v.out.v))])

\* RawExpr::Object: the pairs, spreads and shorthands of an object literal,
\* inserted into a BTreeMap in source order.
EvalObjectProps(h, scs, props, i, vals) ==
    IF i > Len(props) THEN Applied(Ok(vals), h)
    ELSE IF props[i].p = "Pair" THEN
        EvalPropValue(scs, props, i, vals, eval_expr_to_str(h, scs, props[i].name))
    ELSE IF props[i].collect
        THEN Applied(AtLoc("ObjectCollectOutsideDestructure"), h)
    ELSE IF props[i].is_spread THEN
        With([r \in {MatchEvalExpr(h, scs, props[i].expr)} |->
            IF r.out.k # "ok" THEN r
            ELSE IF r.out.v.t = "object"
                THEN EvalObjectProps(r.heap, scs, props, i + 1,
                                     InsertAll(vals, r.heap[r.out.v.h].props, 1))
            ELSE Applied(AtLoc("SpreadNonObjectInObject"), r.heap)])
    ELSE IF props[i].expr.e = "Var" THEN
        With([v \in {get(h, scs, props[i].expr.name)} |->
            IF v.some
            THEN EvalObjectProps(h, scs, props, i + 1,
                                 BTreeInsert(vals, props[i].expr.name, v.v))
            ELSE Applied(AtLocName("Undefined", props[i].expr.name), h)])
    ELSE Applied(AtLoc("ObjectPropShorthandNotVar"), h)

\* RawExpr::BinaryOp, the left operand evaluated.
EvalBinaryRhs(scs, expr, l) ==
    IF l.out.k # "ok"
    THEN Applied(Context("EvalBinOpLhsFailed", l.out), l.heap)
    ELSE With([r \in {eval_expr(l.heap, scs, expr.rhs)} |->
        IF r.out.k # "ok"
        THEN Applied(Context("EvalBinOpRhsFailed", r.out), r.heap)
        ELSE With([a \in {apply_binary_operation(r.heap, expr.op,
                                                 l.out.v, r.out.v, {})} |->
            Applied(Context("ApplyBinOpFailed", a.out), a.heap)])])

\* RawExpr::Index, the indexed expression evaluated.
EvalIndexOf(scs, expr, src) ==
    IF src.out.k # "ok"
    THEN Applied(Context("EvalSourceExprFailed", src.out), src.heap)
    ELSE IF src.out.v.t = "str" THEN
        With([ix \in {eval_expr_to_index(src.heap, scs, expr.location)} |->
            IF ix.out.k # "ok"
            THEN Applied(Context("EvalStringIndexFailed", ix.out), ix.heap)
            ELSE IF ix.out.v.n < Len(src.out.v.s)
                THEN Applied(Ok(VStr(<<src.out.v.s[ix.out.v.n + 1]>>)), ix.heap)
            ELSE Applied(AtLoc("Runtime"), ix.heap)])
    ELSE IF src.out.v.t = "list" THEN
        With([ix \in {eval_expr_to_index(src.heap, scs, expr.location)} |->
            IF ix.out.k # "ok"
            THEN Applied(Context("EvalListIndexFailed", ix.out), ix.heap)
            ELSE Applied(ListGet(ix.heap[src.out.v.h].items, ix.out.v.n), ix.heap)])
    ELSE IF src.out.v.t = "object" THEN
        With([name \in {eval_expr_to_str(src.heap, scs, expr.location)} |->
            IF name.out.k # "ok"
            THEN Applied(Context("EvalObjectIndexFailed", name.out), name.heap)
            ELSE IF HasKey(name.heap[src.out.v.h].props, name.out.v.s)
                THEN Applied(Ok(new_val_ref_with_source(
                                    ValueOf(GetKey(name.heap[src.out.v.h].props,
                                                   name.out.v.s)),
                                    ValueOf(src.out.v))),
                             name.heap)
            ELSE Applied(AtLoc("Runtime"), name.heap)])
    ELSE Applied(AtLoc("ValueNotIndexable"), src.heap)

\* apply_unary_operation: UnaryOp::Not.
apply_unary_operation(op, value) ==
    IF value.t = "bool" THEN Ok(VBool(~value.b)) ELSE AtLoc("InvalidUnaryOpType")

\* <[T]>::get(start .. end): None unless start <= end <= len.
SliceGet(items, start, end) ==
    IF start <= end /\ end <= Len(items)
    THEN Some(SubSeq(items, start + 1, end)) ELSE None

get_str_range_index(h, s, maybe_start, maybe_end) ==
    With([vs \in {SliceGet(s, IF maybe_start.some THEN maybe_start.v ELSE 0,
                            IF maybe_end.some THEN maybe_end.v ELSE Len(s))} |->
        IF vs.some THEN Applied(Ok(VStr(vs.v)), h)
        ELSE Applied(Err(<<"AtLoc", "EvalStringRangeIndexFailed",
                           "RangeOutOfStringBounds">>), h)])

get_list_range_index(h, list, maybe_start, maybe_end) ==
    With([vs \in {SliceGet(h[list].items,
                            IF maybe_start.some THEN maybe_start.v ELSE 0,
                            IF maybe_end.some THEN maybe_end.v
                            ELSE Len(h[list].items))} |->
        IF vs.some THEN Applied(Ok(VList(NewHandle(h))), Alloc(h, ListCell(vs.v)))
        ELSE Applied(Err(<<"AtLoc", "EvalListRangeIndexFailed",
                           "RangeOutOfListBounds">>), h)])

\* An optional index of a range: None, or Some of the evaluated index.
EvalRangeBound(h, scs, maybe_expr, wrapper) ==
    IF ~maybe_expr.some THEN Applied(Ok(None), h)
    ELSE With([r \in {eval_expr_to_index(h, scs, maybe_expr.v)} |->
        IF r.out.k # "ok" THEN Applied(Context(wrapper, r.out), r.heap)
        ELSE Applied(Ok(Some(r.out.v.n)), r.heap)])

\* RawExpr::RangeIndex, both bounds evaluated: now the sliced expression.
EvalRangeIndexOf(scs, expr, start_val, e) ==
    IF e.out.k # "ok" THEN e
    ELSE With([c \in {MatchEvalExpr(e.heap, scs, expr.expr)} |->
        IF c.out.k # "ok" THEN c
        ELSE IF c.out.v.t = "str"
            THEN get_str_range_index(c.heap, c.out.v.s, start_val, e.out.v)
        ELSE IF c.out.v.t = "list"
            THEN get_list_range_index(c.heap, c.out.v.h, start_val, e.out.v)
        ELSE Applied(AtLoc("ValueNotRangeIndexable"), c.heap)])

\* RawExpr::RangeIndex: the start, then the end, then the sliced expression.
EvalRangeIndex(scs, expr, s) ==
    IF s.out.k # "ok" THEN s
    ELSE EvalRangeIndexOf(scs, expr, s.out.v,
                          EvalRangeBound(s.heap, scs, expr.end, "EvalEndIndexFailed"))

\* A String is its UTF-8 bytes; a char below U+0800 is one byte or two.
Utf8Char(c) == IF c < 128 THEN <<c>> ELSE <<192 + (c \div 64), 128 + (c % 64)>>
RECURSIVE Utf8(_)
Utf8(chars) == IF chars = <<>> THEN <<>> ELSE Utf8Char(Head(chars)) \o Utf8(Tail(chars))

\* str::is_char_boundary, and `&s[a .. b]` on a str: None is its panic.
is_char_boundary(s, i) ==
    \/ i = 0
    \/ i = Len(s)
    \/ i < Len(s) /\ s[i + 1] \notin 128..191
StrSlice(s, a, b) ==
    IF a <= b /\ b <= Len(s) /\ is_char_boundary(s, a) /\ is_char_boundary(s, b)
    THEN Some(SubSeq(s, a + 1, b)) ELSE None

\* String::from_utf8 on sequences of one- and two-byte characters.
RECURSIVE from_utf8(_)
from_utf8(bytes) ==
    IF bytes = <<>> THEN TRUE
    ELSE IF Head(bytes) < 128 THEN from_utf8(Tail(bytes))
    ELSE /\ Head(bytes) \in 194..223
         /\ Len(bytes) > 1
         /\ bytes[2] \in 128..191
         /\ from_utf8(Tail(Tail(bytes)))

\* ExprParser::parse on the text of a slot: a name is a variable; the
\* grammar of the other expressions is not part of the model.
IsIdentStart(c) == c \in 65..90 \/ c \in 97..122 \/ c = 95
IsIdentChar(c) == IsIdentStart(c) \/ c \in 48..57
parse(directive) ==
    IF /\ directive # <<>>
       /\ IsIdentStart(directive[1])
       /\ \A i \in 1..Len(directive) : IsIdentChar(directive[i])
    THEN Some([e |-> "Var", name |-> directive])
    ELSE None

\* interpolate_string: the text before each slot, the value of the slot's
\* expression, and the text after the last slot.
RECURSIVE InterpolateSlots(_, _, _, _, _, _, _)
InterpolateSlots(h, scs, s, slots, i, last_slot_end, result) ==
    IF i > Len(slots) THEN
        With([rest \in {StrSlice(s, last_slot_end, Len(s))} |->
            IF rest.some THEN Applied(Ok(result \o rest.v), h) ELSE Applied(Panic, h)])
    ELSE With([before \in {StrSlice(s, last_slot_end, slots[i][1])},
               directive \in {StrSlice(s, slots[i][1] + 2, slots[i][2] - 1)} |->
        IF ~before.some \/ ~directive.some THEN Applied(Panic, h)
        ELSE IF ~parse(directive.v).some
            THEN Applied(AtLoc("InterpolateStringParseFailed"), h)
        ELSE With([v \in {eval_expr(h, scs, parse(directive.v).v)} |->
            IF v.out.k = "panic" THEN v
            ELSE IF v.out.k # "ok"
                THEN Applied(Context("AtLoc",
                                     Context("InterpolateStringEvalExprFailed", v.out)),
                             v.heap)
            ELSE IF v.out.v.t # "str"
                THEN Applied(AtLoc("InterpolatedValueNotString"), v.heap)
            ELSE IF ~from_utf8(v.out.v.s)
                THEN Applied(AtLoc("StringConstructionFailed"), v.heap)
            ELSE InterpolateSlots(v.heap, scs, s, slots, i + 1, slots[i][2],
                                  result \o before.v \o v.out.v.s)])])
interpolate_string(h, scs, s, interpolation_slots) ==
    InterpolateSlots(h, scs, s, interpolation_slots, 1, 0, <<>>)

eval_expr_match(h, scs, expr) ==
    CASE expr.e = "Null" -> Applied(Ok(VNull), h)
      [] expr.e = "Bool" -> Applied(Ok(VBool(expr.b)), h)
      [] expr.e = "Int" -> Applied(Ok(VInt(expr.n)), h)
      [] expr.e = "Str" ->
            IF "interpolation_slots" \in DOMAIN expr
            THEN With([v \in {interpolate_string(h, scs, expr.s,
                                                 expr.interpolation_slots)} |->
                    IF v.out.k = "ok" THEN Applied(Ok(VStr(v.out.v)), v.heap)
                    ELSE Applied(Context("InterpolateStringFailed", v.out), v.heap)])
            ELSE Applied(Ok(VStr(expr.s)), h)
      [] expr.e = "Var" ->
            With([v \in {get(h, scs, expr.name)} |->
                IF v.some THEN Applied(Ok(v.v), h)
                ELSE Applied(AtLocName("Undefined", expr.name), h)])
      [] expr.e = "BinaryOp" ->
            EvalBinaryRhs(scs, expr, eval_expr(h, scs, expr.lhs))
      [] expr.e = "List" ->
            IF expr.collect
            THEN Applied(AtLoc("ListCollectOutsideDestructure"), h)
            ELSE With([r \in {eval_list_items(h, scs, expr.items, 1, <<>>)} |->
                IF r.out.k # "ok"
                THEN Applied(Context("EvalListItemsFailed", r.out), r.heap)
                ELSE Applied(Ok(VList(NewHandle(r.heap))),
                             Alloc(r.heap, ListCell(r.out.v)))])
      [] expr.e = "Index" ->
            EvalIndexOf(scs, expr, eval_expr(h, scs, expr.expr))
      [] expr.e = "Object" ->
            With([r \in {EvalObjectProps(h, scs, expr.props, 1, <<>>)} |->
                IF r.out.k # "ok" THEN r
                ELSE Applied(Ok(VObject(NewHandle(r.heap))),
                             Alloc(r.heap, ObjectCell(r.out.v)))])
      [] expr.e = "Prop" ->
            With([src \in {eval_expr(h, scs, expr.expr)} |->
                IF src.out.k # "ok"
                THEN Applied(Context("EvalPropFailed", src.out), src.heap)
                ELSE IF src.out.v.t # "object"
                    THEN Applied(AtLoc("PropAccessOnNonObject"), src.heap)
                ELSE IF HasKey(src.heap[src.out.v.h].props, expr.name)
                    THEN Applied(Ok(new_val_ref_with_source(
                                        ValueOf(GetKey(src.heap[src.out.v.h].props,
                                                       expr.name)),
                                        ValueOf(src.out.v))),
                                 src.heap)
                ELSE Applied(AtLoc("Runtime"), src.heap)])
      [] expr.e = "Func" ->
            Applied(Ok(VFunc(NewHandle(h))),
                    Alloc(h, Func(None, expr.args, expr.collect_args, expr.stmts,
                                  clone(scs))))
      [] expr.e = "CatchAsBool" ->
            With([inner \in {eval_expr(h, scs, expr.expr)} |->
                CatchAsBool(inner.heap, inner.out)])
      [] expr.e = "UnaryOp" ->
            With([value \in {eval_expr(h, scs, expr.expr)} |->
                IF value.out.k # "ok"
                THEN Applied(Context("EvalUnaryOpFailed", value.out), value.heap)
                ELSE Applied(Context("ApplyUnaryOpFailed",
                                     apply_unary_operation(expr.op, value.out.v)),
                             value.heap)])
      [] expr.e = "RangeIndex" ->
            EvalRangeIndex(scs, expr,
                           EvalRangeBound(h, scs, expr.start, "EvalStartIndexFailed"))
      [] expr.e = "Call" ->
            With([v \in {eval_call(h, scs, expr.func, expr.args, LocOf(expr))} |->
                Applied(Context("EvalCallFailed", v.out), v.heap)])

----------------------------------------------------------------------------
(* The binder (eval/bind.rs).  A bind returns Bound(out, heap, scopes,      *)
(* names): the outcome (StmtOk, an error or a panic), the heap and the     *)
(* scope stack as the bind left them, and names_in_binding.                *)

StmtOk == [k |-> "none"]
Bound(out, h, scs, names) ==
    [out |-> out, heap |-> h, scopes |-> scs, names |-> names]

Declaration == "Declaration"
Assignment == "Assignment"

\* bind_next_name's test of the sink name.
IsSinkNever(name) == FALSE
IsSink(name) == name = Underscore

\* bind_next_name's test against names_in_binding.
InBindingNever(names, name) == FALSE
InBinding(names, name) == name \in names

bind_next_name(h, scs, names, name, name_loc, rhs, op, bind_type) ==
    IF IsSink(name) THEN Bound(StmtOk, h, scs, names)
    ELSE IF InBinding(names, name)
        THEN Bound(AtLocName("AlreadyInBinding", name), h, scs, names)
    ELSE IF bind_type = Declaration THEN
        IF op.some THEN Bound(AtLoc("Dev"), h, scs, names \cup {name})
        ELSE With([d \in {declare(h, scs, name, name_loc, rhs, Var)} |->
            IF d.ok THEN Bound(StmtOk, d.heap, scs, names \cup {name})
            ELSE IF d.panic THEN Bound(Panic, h, scs, names \cup {name})
            ELSE Bound(AlreadyInScope(name, d.loc), h, scs, names \cup {name})])
    ELSE IF op.some /\ ~get(h, scs, name).some
        THEN Bound(AtLocName("Undefined", name), h, scs, names \cup {name})
    ELSE With([a \in {IF op.some
                      THEN apply_binary_operation(h, op.v, get(h, scs, name).v, rhs, {})
                      ELSE Applied(Ok(rhs), h)} |->
        IF a.out.k # "ok"
        THEN Bound(Context("ApplyBinOpFailed", a.out), a.heap, scs, names \cup {name})
        ELSE With([s \in {assign(a.heap, scs, name, a.out.v)} |->
            IF s.ok THEN Bound(StmtOk, s.heap, scs, names \cup {name})
            ELSE Bound(AtLocName("Undefined", name), a.heap, scs,
                       names \cup {name})])])

\* scope::set on a slot of a list: the write goes to the locked list itself.
ListSetLost(h, list, n, v) == h
ListSet(h, list, n, v) == [h EXCEPT ![list].items[n + 1] = v]
ObjectSetAlone(h, obj, key, v) == [h EXCEPT ![obj].props = BTreeInsert(<<>>, key, v)]
ObjectSet(h, obj, key, v) == [h EXCEPT ![obj].props = BTreeInsert(@, key, v)]

\* binary_operation_assign: the new value of a slot; `held` is the
\* container whose lock the caller holds around the slot.
binary_operation_assign(h, slot, rhs, op, held) ==
    IF op.some
    THEN With([a \in {apply_binary_operation(h, op.v, slot, rhs, held)} |->
            Applied(Context("ApplyBinOpFailed", a.out), a.heap)])
    ELSE Applied(Ok(rhs), h)

\* The one-byte strings of a string right-hand side.
RECURSIVE Chars(_)
Chars(s) == IF s = <<>> THEN <<>> ELSE <<VStr(<<Head(s)>>)>> \o Chars(Tail(s))

RECURSIVE SetRange(_, _, _, _)
SetRange(items, start, rhs_items, i) ==
    IF i > Len(rhs_items) THEN items
    ELSE SetRange([items EXCEPT ![start + i] = rhs_items[i]], start, rhs_items, i + 1)

\* bind_range_index, both indices evaluated: the checks and the writes.
SetRangeChecked(h, scs, names, list, start, end, rhs_items) ==
    IF start > Len(h[list].items)
        THEN Bound(AtLoc("RangeStartOutOfListBounds"), h, scs, names)
    ELSE IF start >= end
        THEN Bound(AtLoc("RangeStartNotBeforeEnd"), h, scs, names)
    ELSE IF end > Len(h[list].items)
        THEN Bound(AtLoc("RangeEndOutOfListBounds"), h, scs, names)
    ELSE IF end - start # Len(rhs_items)
        THEN Bound(AtLoc("RangeIndexItemMismatch"), h, scs, names)
    ELSE Bound(StmtOk, [h EXCEPT ![list].items = SetRange(@, start, rhs_items, 1)],
               scs, names)

\* The end of a range with none given: `rhs_len`, not `list_len`.
DefaultEndOfList(rhs_len, list_len) == list_len
DefaultEnd(rhs_len, list_len) == rhs_len

\* bind_range_index; start and end are None or Some(expr).
bind_range_index(h, scs, names, list, start, end, rhs_items) ==
    With([s \in {IF start.some THEN eval_expr_to_index(h, scs, start.v)
                 ELSE Applied(Ok(VInt(0)), h)} |->
        IF s.out.k # "ok"
        THEN Bound(Context("EvalStartIndexFailed", s.out), s.heap, scs, names)
        ELSE With([e \in {IF end.some THEN eval_expr_to_index(s.heap, scs, end.v)
                          ELSE Applied(Ok(VInt(DefaultEnd(Len(rhs_items),
                                                          Len(s.heap[list].items)))),
                                       s.heap)} |->
            IF e.out.k # "ok"
            THEN Bound(Context("EvalEndIndexFailed", e.out), e.heap, scs, names)
            ELSE SetRangeChecked(e.heap, scs, names, list, s.out.v.n, e.out.v.n,
                                 rhs_items)])])

RECURSIVE bind_list(_, _, _, _, _, _, _, _)
RECURSIVE bind_object(_, _, _, _, _, _, _, _)
RECURSIVE bind_object_prop(_, _, _, _, _, _, _)

\* bind_list from item i on: the length checks are made before (i = 1).
\* `lhs_len-1` on a usize of 0 overflows: a panic where overflow is checked,
\* usize::MAX where it wraps.
\* `bind_next(..).context(BindListItemFailed)?`: the error is returned and
\* the scopes stay as the failing bind left them.
BindingsRolledBack(b, h) == [b EXCEPT !.heap = h]
BindingsKept(b, h) == b

bind_list(h, scs, names, items, collect, rhs, bind_type, i) ==
    IF i = 1 /\ collect /\ Len(items) = 0
        THEN Bound(UsizeOverflow, h, scs, names)
    ELSE IF i = 1 /\ collect /\ Len(items) - 1 > Len(h[rhs].items)
        THEN Bound(AtLoc("ListCollectTooFew"), h, scs, names)
    ELSE IF i = 1 /\ ~collect /\ Len(items) # Len(h[rhs].items)
        THEN Bound(AtLoc("ListDestructureItemMismatch"), h, scs, names)
    ELSE IF i > Len(items) THEN Bound(StmtOk, h, scs, names)
    ELSE IF items[i].is_spread
        THEN Bound(AtLoc("SpreadInListDestructure"), h, scs, names)
    ELSE With([b \in {IF collect /\ i = Len(items)
                      THEN bind_next(Alloc(h, ListCell(SubSeq(h[rhs].items, Len(items),
                                                              Len(h[rhs].items)))),
                                     scs, names, items[i].expr, VList(NewHandle(h)),
                                     None, bind_type)
                      ELSE bind_next(h, scs, names, items[i].expr, h[rhs].items[i],
                                     None, bind_type)} |->
        IF b.out.k # "none"
        THEN [BindingsKept(b, h) EXCEPT !.out = Context("BindListItemFailed", @)]
        ELSE bind_list(b.heap, b.scopes, b.names, items, collect, rhs,
                       bind_type, i + 1)])

\* The entries of `props` whose key is in `keys`, in BTreeMap order.
RECURSIVE Restrict(_, _)
Restrict(props, keys) ==
    IF props = <<>> THEN <<>>
    ELSE IF Head(props).key \in keys
        THEN <<Head(props)>> \o Restrict(Tail(props), keys)
    ELSE Restrict(Tail(props), keys)

bind_object_prop(h, scs, names, lhs, rhs, prop_name, bind_type) ==
    IF prop_name = Underscore THEN Bound(StmtOk, h, scs, names)
    ELSE IF ~HasKey(h[rhs].props, prop_name)
        THEN Bound(AtLoc("Runtime"), h, scs, names)
    ELSE With([b \in {bind_next(h, scs, names, lhs, GetKey(h[rhs].props, prop_name),
                                None, bind_type)} |->
            [b EXCEPT !.out = Context("BindNextFailed", @)]])

\* bind_object, after the bind of property i: fail with the wrapper, or go
\* on with the remaining keys.
BindObjectRest(b, wrapper, props, rhs, bind_type, i, remaining_keys) ==
    IF b.out.k # "none"
    THEN [b EXCEPT !.out = Context(wrapper, @)]
    ELSE bind_object(b.heap, b.scopes, b.names, props, rhs, bind_type, i + 1,
                     remaining_keys)

\* bind_object, a pair whose name is evaluated.
BindObjectPair(scs, names, props, rhs, bind_type, i, remaining_keys, name) ==
    IF name.out.k # "ok"
    THEN Bound(Context("EvalObjectIndexFailed", name.out), name.heap, scs, names)
    ELSE BindObjectRest(
             bind_object_prop(name.heap, scs, names, props[i].value, rhs,
                              name.out.v.s, bind_type),
             "BindObjectPairFailed", props, rhs, bind_type, i,
             remaining_keys \ {name.out.v.s})

\* bind_object from property i on, with the keys not yet consumed.
bind_object(h, scs, names, props, rhs, bind_type, i, remaining_keys) ==
    IF i > Len(props) THEN Bound(StmtOk, h, scs, names)
    ELSE IF props[i].p = "Single" THEN
        IF props[i].is_spread
            THEN Bound(AtLoc("SpreadOnObjectDestructure"), h, scs, names)
        ELSE IF props[i].expr.e # "Var"
            THEN Bound(AtLoc("ObjectPropShorthandNotVar"), h, scs, names)
        ELSE IF props[i].collect THEN
            IF i # Len(props)
            THEN Bound(AtLoc("ObjectCollectIsNotLast"), h, scs, names)
            ELSE BindObjectRest(
                     bind_next_name(
                         Alloc(h, ObjectCell(Restrict(h[rhs].props, remaining_keys))),
                         scs, names, props[i].expr.name, LocOf(props[i].expr),
                         VObject(NewHandle(h)), None, bind_type),
                     "BindObjectCollectFailed", props, rhs, bind_type, i,
                     remaining_keys)
        ELSE BindObjectRest(
                 bind_object_prop(h, scs, names, props[i].expr, rhs,
                                  props[i].expr.name, bind_type),
                 "BindObjectSingleFailed", props, rhs, bind_type, i,
                 remaining_keys \ {props[i].expr.name})
    ELSE BindObjectPair(scs, names, props, rhs, bind_type, i, remaining_keys,
                        eval_expr_to_str(h, scs, props[i].name))

InvalidBindTargets ==
    {"Null", "Bool", "Int", "Str", "UnaryOp", "BinaryOp", "Range", "Func",
     "Call", "CatchAsBool"}

\* bind_next, RawExpr::Index on a list `list`, the index n evaluated.
BindListIndex(scs, names, list, rhs, op, n) ==
    IF n.out.k # "ok"
    THEN Bound(Context("EvalListIndexFailed", n.out), n.heap, scs, names)
    ELSE IF n.out.v.n >= Len(n.heap[list].items)
        THEN Bound(AtLoc("Runtime"), n.heap, scs, names)
    ELSE With([a \in {binary_operation_assign(n.heap, n.heap[list].items[n.out.v.n + 1],
                                              rhs, op, {list})} |->
        IF a.out.k # "ok"
        THEN Bound(Context("BinOpAssignListIndexFailed", a.out), a.heap, scs, names)
        ELSE Bound(StmtOk, ListSet(a.heap, list, n.out.v.n, a.out.v), scs, names)])

\* bind_next on a property `key` of the object `obj` (RawExpr::Index with
\* the name evaluated, RawExpr::Prop): a slot that exists is assigned under
\* the lock, a new key is inserted.
BindObjectSlot(h, scs, names, obj, key, rhs, op, wrapper, undefined) ==
    IF HasKey(h[obj].props, key) THEN
        With([a \in {binary_operation_assign(h, GetKey(h[obj].props, key),
                                             rhs, op, {obj})} |->
            IF a.out.k # "ok"
            THEN Bound(Context(wrapper, a.out), a.heap, scs, names)
            ELSE Bound(StmtOk, ObjectSet(a.heap, obj, key, a.out.v), scs, names)])
    ELSE IF op.some THEN Bound(AtLocName(undefined, key), h, scs, names)
    ELSE Bound(StmtOk, ObjectSet(h, obj, key, rhs), scs, names)

BindObjectIndex(scs, names, obj, rhs, op, name) ==
    IF name.out.k # "ok"
    THEN Bound(Context("EvalObjectIndexFailed", name.out), name.heap, scs, names)
    ELSE BindObjectSlot(name.heap, scs, names, obj, name.out.v.s, rhs, op,
                        "BinOpAssignObjectIndexFailed", "OpOnUndefinedIndex")

\* bind_next, RawExpr::Index, the indexed expression c evaluated.
BindIndex(scs, names, lhs, rhs, op, c) ==
    IF c.out.k # "ok" THEN Bound(c.out, c.heap, scs, names)
    ELSE IF c.out.v.t = "list"
        THEN BindListIndex(scs, names, c.out.v.h, rhs, op,
                           eval_expr_to_index(c.heap, scs, lhs.location))
    ELSE IF c.out.v.t = "object"
        THEN BindObjectIndex(scs, names, c.out.v.h, rhs, op,
                             eval_expr_to_str(c.heap, scs, lhs.location))
    ELSE Bound(AtLoc("ValueNotIndexAssignable"), c.heap, scs, names)

\* bind_next, RawExpr::RangeIndex, the indexed expression c evaluated.
BindRangeIndex(scs, names, lhs, rhs, c) ==
    IF c.out.k # "ok" THEN Bound(c.out, c.heap, scs, names)
    ELSE IF c.out.v.t # "list"
        THEN Bound(AtLoc("ValueNotRangeIndexAssignable"), c.heap, scs, names)
    ELSE IF rhs.t \notin {"list", "str"}
        THEN Bound(AtLoc("RangeIndexAssignOnNonIndexable"), c.heap, scs, names)
    ELSE bind_range_index(c.heap, scs, names, c.out.v.h, lhs.start, lhs.end,
                          IF rhs.t = "list" THEN c.heap[rhs.h].items
                          ELSE Chars(rhs.s))

\* bind_next, RawExpr::Prop, the expression c left of the dot evaluated.
BindProp(scs, names, lhs, rhs, op, c) ==
    IF c.out.k # "ok" THEN Bound(c.out, c.heap, scs, names)
    ELSE IF c.out.v.t # "object"
        THEN Bound(AtLoc("PropAccessOnNonObject"), c.heap, scs, names)
    ELSE BindObjectSlot(c.heap, scs, names, c.out.v.h, lhs.name, rhs, op,
                        "BinOpAssignPropFailed", "OpOnUndefinedProp")

bind_next_match(h, scs, names, lhs, rhs, op, bind_type) ==
    CASE lhs.e = "Var" ->
            bind_next_name(h, scs, names, lhs.name, LocOf(lhs), rhs, op, bind_type)
      [] lhs.e = "Index" ->
            BindIndex(scs, names, lhs, rhs, op, MatchEvalExpr(h, scs, lhs.expr))
      [] lhs.e = "RangeIndex" ->
            IF op.some THEN Bound(AtLoc("OpOnRangeIndex"), h, scs, names)
            ELSE BindRangeIndex(scs, names, lhs, rhs, MatchEvalExpr(h, scs, lhs.expr))
      [] lhs.e = "Prop" ->
            BindProp(scs, names, lhs, rhs, op, MatchEvalExpr(h, scs, lhs.expr))
      [] lhs.e = "Object" ->
            IF op.some THEN Bound(AtLoc("OpOnObjectDestructure"), h, scs, names)
            ELSE IF rhs.t = "object"
                THEN bind_object(h, scs, names, lhs.props, rhs.h, bind_type, 1,
                                 KeysOf(h[rhs.h].props))
            ELSE Bound(AtLoc("ObjectDestructureOnNonObject"), h, scs, names)
      [] lhs.e = "List" ->
            IF op.some THEN Bound(AtLoc("OpOnListDestructure"), h, scs, names)
            ELSE IF rhs.t = "list"
                THEN bind_list(h, scs, names, lhs.items, lhs.collect, rhs.h,
                               bind_type, 1)
            ELSE Bound(AtLoc("ListDestructureOnNonList"), h, scs, names)
      [] lhs.e \in InvalidBindTargets ->
            Bound(AtLoc("InvalidBindTarget"), h, scs, names)

\* bind: a bind with an empty names_in_binding and no operator.
NoNames == {}
bind(h, scs, lhs, rhs, bind_type) ==
    bind_next(h, scs, NoNames, lhs, rhs, None, bind_type)

----------------------------------------------------------------------------
(* Statements (eval/mod.rs eval_stmt, eval_stmts).  A statement returns    *)
(* Bound(out, heap, scopes, names) with out = StmtOk for Escape::None.     *)

SExpr(expr) == [s |-> "Expr", expr |-> expr]
SDeclare(lhs, rhs) == [s |-> "Declare", lhs |-> lhs, rhs |-> rhs]
SAssign(lhs, rhs) == [s |-> "Assign", lhs |-> lhs, rhs |-> rhs]
SOpAssign(lhs, op, rhs) == [s |-> "OpAssign", lhs |-> lhs, op |-> op, rhs |-> rhs]
SFor(lhs, iter, stmts) == [s |-> "For", lhs |-> lhs, iter |-> iter, stmts |-> stmts]
SFunc(name, args, collect_args, stmts) ==
    [s |-> "Func", name |-> name, args |-> args, collect_args |-> collect_args,
     stmts |-> stmts]
SBlock(block) == [s |-> "Block", block |-> block]
SIf(branches, else_stmts) == [s |-> "If", branches |-> branches, else_stmts |-> else_stmts]
Branch(cond, stmts) == [cond |-> cond, stmts |-> stmts]
SWhile(cond, stmts) == [s |-> "While", cond |-> cond, stmts |-> stmts]
SBreak(loc) == [s |-> "Break", loc |-> loc]
SContinue(loc) == [s |-> "Continue", loc |-> loc]
SReturn(loc, expr) == [s |-> "Return", loc |-> loc, expr |-> expr]

\* Escape: what a statement hands to the statements around it.  StmtOk is
\* Escape::None.
EscapeBreak(loc) == [k |-> "break", loc |-> loc]
EscapeContinue(loc) == [k |-> "continue", loc |-> loc]
EscapeReturn(value, loc) == [k |-> "return", value |-> value, loc |-> loc]
\* An error or a panic, as opposed to an Escape.
Failed(out) == out.k \in {"err", "panic"}

Binding(lhs, rhs) == [lhs |-> lhs, rhs |-> rhs]
PairOf(key, val) == [key |-> key, val |-> val]

\* validate_args: the queue of parameter patterns still to visit and the
\* names seen so far.  A parameter named `_` ends the validation.
RECURSIVE ValidateQueue(_, _)
RECURSIVE PushProps(_, _, _)
RECURSIVE PushItems(_, _, _)
PushProps(queue, props, i) ==
    IF i > Len(props) THEN Some(queue)
    ELSE IF props[i].p = "Pair"
        THEN PushProps(Append(queue, props[i].value), props, i + 1)
    ELSE IF props[i].is_spread THEN None
    ELSE PushProps(Append(queue, props[i].expr), props, i + 1)
PushItems(queue, items, i) ==
    IF i > Len(items) THEN Some(queue)
    ELSE IF items[i].is_spread THEN None
    ELSE PushItems(Append(queue, items[i].expr), items, i + 1)

\* validate_args's test of a parameter name against the names seen so far.
DupParam(name_locs, name) == name \in name_locs

ValidateQueue(queue, name_locs) ==
    IF queue = <<>> THEN StmtOk
    ELSE LET arg == Head(queue) IN
        CASE arg.e = "Var" ->
                IF arg.name = Underscore THEN StmtOk
                ELSE IF DupParam(name_locs, arg.name)
                    THEN AtLocName("DupParamName", arg.name)
                ELSE ValidateQueue(Tail(queue), name_locs \cup {arg.name})
          [] arg.e = "Object" ->
                With([q \in {PushProps(Tail(queue), arg.props, 1)} |->
                    IF q.some THEN ValidateQueue(q.v, name_locs)
                    ELSE AtLoc("PropSpreadInParamList")])
          [] arg.e = "List" ->
                With([q \in {PushItems(Tail(queue), arg.items, 1)} |->
                    IF q.some THEN ValidateQueue(q.v, name_locs)
                    ELSE AtLoc("ItemSpreadInParamList")])
          [] OTHER -> AtLoc("InvalidBindTarget")

validate_args(args) == ValidateQueue(args, {})

\* value_to_pairs: the "index, value" pairs of an iterable value.
RECURSIVE StrPairs(_, _)
StrPairs(s, i) ==
    IF i > Len(s) THEN <<>>
    ELSE <<PairOf(VInt(i - 1), VStr(<<s[i]>>))>> \o StrPairs(s, i + 1)
RECURSIVE ListPairs(_, _)
ListPairs(items, i) ==
    IF i > Len(items) THEN <<>>
    ELSE <<PairOf(VInt(i - 1), items[i])>> \o ListPairs(items, i + 1)
\* BTreeMap::iter of an object: the entries in the order of the map.
PropsIterReversed(props) ==
    [i \in 1..Len(props) |-> PairOf(VStr(props[Len(props) + 1 - i].key),
                                    props[Len(props) + 1 - i].val)]
PropsIter(props) ==
    [i \in 1..Len(props) |-> PairOf(VStr(props[i].key), props[i].val)]

value_to_pairs(h, v) ==
    IF v.t = "str" THEN Some(StrPairs(v.s, 1))
    ELSE IF v.t = "list" THEN Some(ListPairs(h[v.h].items, 1))
    ELSE IF v.t = "object" THEN Some(PropsIter(h[v.h].props))
    ELSE None

\* Stmt::For's `for (key, value) in pairs`: the pairs of the loop are the
\* Vec made by value_to_pairs before the first iteration.
PairsOfContainerNow(h, iter_val, entry_pairs) == value_to_pairs(h, iter_val).v
PairsOfLoop(h, iter_val, entry_pairs) == entry_pairs

RECURSIVE eval_stmts_with_scope_stack(_, _, _, _)
RECURSIVE BindAll(_, _, _, _)
RECURSIVE ForPairs(_, _, _, _, _, _, _)
RECURSIVE IfBranches(_, _, _, _)
RECURSIVE WhileLoop(_, _, _)

\* eval_stmts's loop over new_bindings: one bind each.
BindAll(h, scs, new_bindings, i) ==
    IF i > Len(new_bindings) THEN Bound(StmtOk, h, scs, NoNames)
    ELSE With([b \in {bind(h, scs, new_bindings[i].lhs, new_bindings[i].rhs,
                           Declaration)} |->
        IF b.out.k # "none"
        THEN [b EXCEPT !.out = Context("BindFailed", @)]
        ELSE BindAll(b.heap, b.scopes, new_bindings, i + 1)])

\* The stack the caller of eval_stmts holds afterwards: `new_scopes` is a
\* local of eval_stmts and `scopes` is only read.
ScopesLeaked(new_scopes, scs) == new_scopes
ScopesAfter(new_scopes, scs) == scs

\* eval_stmts: the statements run on a new stack, the given one and a new
\* scope; the given stack is left as it was.
eval_stmts(h, scs, new_bindings, stmts) ==
    With([new_scopes \in {new_from_push(h, scs, EmptyScope)} |->
        With([b \in {BindAll(new_scopes.heap, new_scopes.scopes, new_bindings, 1)} |->
            IF b.out.k # "none"
            THEN Bound(b.out, b.heap, ScopesAfter(new_scopes.scopes, scs), NoNames)
            ELSE With([r \in {eval_stmts_with_scope_stack(b.heap, new_scopes.scopes,
                                                          stmts, 1)} |->
                Bound(Context("EvalStmtsWithScopeStackFailed", r.out), r.heap,
                      ScopesAfter(new_scopes.scopes, scs), NoNames)])])])

eval_stmts_in_new_scope(h, outer_scopes, stmts) ==
    eval_stmts(h, outer_scopes, <<>>, stmts)

\* The first statement that fails or escapes ends the list.
eval_stmts_with_scope_stack(h, scs, stmts, i) ==
    IF i > Len(stmts) THEN Bound(StmtOk, h, scs, NoNames)
    ELSE With([r \in {eval_stmt(h, scs, stmts[i])} |->
        IF r.out.k # "none"
        THEN [r EXCEPT !.out = Context("EvalStmtFailed", @)]
        ELSE eval_stmts_with_scope_stack(r.heap, r.scopes, stmts, i + 1)])

\* Stmt::For's loop over the pairs taken before the first iteration.
ForPairs(h, scs, lhs, iter_val, entry_pairs, i, stmts) ==
    IF i > Len(PairsOfLoop(h, iter_val, entry_pairs))
        THEN Bound(StmtOk, h, scs, NoNames)
    ELSE With([r \in {eval_stmts(
                          Alloc(h, ListCell(
                              <<PairsOfLoop(h, iter_val, entry_pairs)[i].key,
                                PairsOfLoop(h, iter_val, entry_pairs)[i].val>>)),
                          scs, <<Binding(lhs, VList(NewHandle(h)))>>, stmts)} |->
        IF Failed(r.out)
            THEN [r EXCEPT !.out = Context("EvalForStatementsFailed", @)]
        ELSE IF r.out.k = "break" THEN [r EXCEPT !.out = StmtOk]
        ELSE IF r.out.k = "return" THEN r
        ELSE ForPairs(r.heap, scs, lhs, iter_val, entry_pairs, i + 1, stmts)])

\* Stmt::Declare, Stmt::Assign and Stmt::OpAssign, the right-hand side v
\* evaluated: the bind, under the statement's wrappers.
BindStmt(scs, lhs, op, bind_type, rhs_failed, bind_failed, v) ==
    IF v.out.k # "ok"
    THEN Bound(Context(rhs_failed, v.out), v.heap, scs, NoNames)
    ELSE With([b \in {bind_next(v.heap, scs, NoNames, lhs, v.out.v, op, bind_type)} |->
            [b EXCEPT !.out = Context(bind_failed, @)]])

\* Stmt::For, the iterated expression evaluated.
ForOver(scs, stmt, it) ==
    IF it.out.k # "ok"
    THEN Bound(Context("EvalForIterFailed", it.out), it.heap, scs, NoNames)
    ELSE IF ~value_to_pairs(it.heap, it.out.v).some
        THEN Bound(Err(<<"ConvertForIterToPairsFailed", "ForIterNotIterable">>),
                   it.heap, scs, NoNames)
    ELSE ForPairs(it.heap, scs, stmt.lhs, it.out.v,
                  value_to_pairs(it.heap, it.out.v).v, 1, stmt.stmts)

\* eval_expr_to_bool: Applied(Ok(VBool(b)), heap) or the failure.
eval_expr_to_bool(h, scs, expr) ==
    With([r \in {MatchEvalExpr(h, scs, expr)} |->
        IF r.out.k # "ok" THEN r
        ELSE IF r.out.v.t = "bool" THEN r
        ELSE Applied(AtLoc("IncorrectType"), r.heap)])

\* Stmt::If from branch i on: the first branch whose condition is true, else
\* the else branch; the Escape of the branch is the statement's.
IfBranches(h, scs, stmt, i) ==
    IF i > Len(stmt.branches) THEN
        IF stmt.else_stmts.some
        THEN With([v \in {eval_stmts_in_new_scope(h, scs, stmt.else_stmts.v)} |->
                [v EXCEPT !.out = Context("EvalElseStatementsFailed", @)]])
        ELSE Bound(StmtOk, h, scs, NoNames)
    ELSE With([b \in {eval_expr_to_bool(h, scs, stmt.branches[i].cond)} |->
        IF b.out.k # "ok"
            THEN Bound(Context("EvalIfConditionFailed", b.out), b.heap, scs, NoNames)
        ELSE IF b.out.v.b
            THEN With([v \in {eval_stmts_in_new_scope(b.heap, scs,
                                                      stmt.branches[i].stmts)} |->
                    [v EXCEPT !.out = Context("EvalIfStatementsFailed", @)]])
        ELSE IfBranches(b.heap, scs, stmt, i + 1)])

\* Stmt::While: the condition, then the statements in a new scope, again.
WhileLoop(h, scs, stmt) ==
    With([b \in {eval_expr_to_bool(h, scs, stmt.cond)} |->
        IF b.out.k # "ok"
            THEN Bound(Context("EvalWhileConditionFailed", b.out), b.heap, scs, NoNames)
        ELSE IF ~b.out.v.b THEN Bound(StmtOk, b.heap, scs, NoNames)
        ELSE With([escape \in {eval_stmts_in_new_scope(b.heap, scs, stmt.stmts)} |->
            IF Failed(escape.out)
                THEN [escape EXCEPT !.out = Context("EvalWhileStatementsFailed", @)]
            ELSE IF escape.out.k = "break" THEN [escape EXCEPT !.out = StmtOk]
            ELSE IF escape.out.k = "return" THEN escape
            ELSE WhileLoop(escape.heap, scs, stmt)])])

eval_stmt_match(h, scs, stmt) ==
    CASE stmt.s = "Block" ->
            With([r \in {eval_stmts_in_new_scope(h, scs, stmt.block)} |->
                IF Failed(r.out)
                THEN [r EXCEPT !.out = Context("EvalBlockFailed", @)]
                ELSE [r EXCEPT !.out = StmtOk]])
      [] stmt.s = "Expr" ->
            With([r \in {eval_expr(h, scs, stmt.expr)} |->
                Bound(IF r.out.k = "ok" THEN StmtOk
                      ELSE Context("EvalExprFailed", r.out), r.heap, scs, NoNames)])
      [] stmt.s = "Declare" ->
            BindStmt(scs, stmt.lhs, None, Declaration, "EvalDeclarationRhsFailed",
                     "DeclarationBindFailed", eval_expr(h, scs, stmt.rhs))
      [] stmt.s = "Assign" ->
            BindStmt(scs, stmt.lhs, None, Assignment, "EvalAssignmentRhsFailed",
                     "AssignmentBindFailed", eval_expr(h, scs, stmt.rhs))
      [] stmt.s = "OpAssign" ->
            BindStmt(scs, stmt.lhs, Some(stmt.op), Assignment, "EvalBinOpRhsFailed",
                     "OpAssignmentBindFailed", eval_expr(h, scs, stmt.rhs))
      [] stmt.s = "If" -> IfBranches(h, scs, stmt, 1)
      [] stmt.s = "While" -> WhileLoop(h, scs, stmt)
      [] stmt.s = "For" ->
            ForOver(scs, stmt, eval_expr(h, scs, stmt.iter))
      [] stmt.s = "Break" -> Bound(EscapeBreak(stmt.loc), h, scs, NoNames)
      [] stmt.s = "Continue" -> Bound(EscapeContinue(stmt.loc), h, scs, NoNames)
      [] stmt.s = "Func" ->
            IF validate_args(stmt.args).k # "none"
            THEN Bound(Context("ValidateArgsFailed", validate_args(stmt.args)),
                       h, scs, NoNames)
            ELSE With([b \in {bind_next_name(
                                  Alloc(h, Func(Some(stmt.name), stmt.args,
                                                stmt.collect_args, stmt.stmts,
                                                clone(scs))),
                                  scs, NoNames, stmt.name, LocOf(stmt),
                                  VFunc(NewHandle(h)), None, Declaration)} |->
                    [b EXCEPT !.out = Context("DeclareFunctionFailed", @)]])
      [] stmt.s = "Return" ->
            With([v \in {eval_expr(h, scs, stmt.expr)} |->
                IF v.out.k # "ok"
                THEN Bound(Context("EvalReturnExprFailed", v.out), v.heap, scs, NoNames)
                ELSE Bound(EscapeReturn(v.out.v, stmt.loc), v.heap, scs, NoNames)])


Eval(c) ==
    CASE c.f = "eval_expr" -> eval_expr_match(c.h, c.scs, c.expr)
      [] c.f = "eval_stmt" -> eval_stmt_match(c.h, c.scs, c.stmt)
      [] c.f = "bind_next" ->
            bind_next_match(c.h, c.scs, c.names, c.lhs, c.rhs, c.op, c.bind_type)

----------------------------------------------------------------------------
(* Calls (eval/mod.rs eval_call) and the program (eval_prog).              *)

NameThis == <<116, 104, 105, 115>>
NamePrint == <<112, 114, 105, 110, 116>>

\* The name of an AtLoc error with the location it is reported at.
AtLocAt(kind, loc) == [k |-> "err", e |-> <<"AtLoc", kind>>, loc |-> loc]

\* builtins::fns::print: one argument and no `this`; the text written is
\* not part of the model.
print(this, args) ==
    IF Len(args) # 1 THEN Err(<<"AssertArgsFailed", "BuiltinFuncErr">>)
    ELSE IF this.some THEN Err(<<"AssertNoThisFailed", "Dev">>)
    ELSE Ok(VNull)

\* eval_call, Value::Func: the bindings of the parameters, the last one a
\* new list of the remaining arguments under collect_args (the list is cell
\* `rest` of the heap), and the binding of `this` when the function value
\* has a source.
CallBindings(func, arg_vals, source, rest) ==
    [i \in 1..Len(func.args) |->
        Binding(func.args[i],
                IF func.collect_args /\ i = Len(func.args) THEN VList(rest)
                ELSE arg_vals[i])]
    \o (IF source.some
        THEN <<Binding(EVar(NameThis), new_val_ref_with_no_source(source.v))>>
        ELSE <<>>)

\* eval_call, CallBinding::Func: the statements on the closure; the Escape
\* of the body is the value of the call or an error.
\* eval_call's match on the Escape of the body.
EscapeDropped(v) ==
    IF v.k = "return" THEN Ok(v.value) ELSE Ok(VNull)
EscapeOfBody(v) ==
    CASE v.k = "none" -> Ok(VNull)
      [] v.k = "break" -> Err(<<"BreakOutsideLoop">>)
      [] v.k = "continue" -> Err(<<"ContinueOutsideLoop">>)
      [] v.k = "return" -> Ok(v.value)

CallBody(h, func, bindings, call_loc) ==
    With([v \in {eval_stmts(h, func.closure, bindings, func.stmts)} |->
        CASE v.out.k = "err" ->
                Applied(ContextCall("EvalFuncCallFailed", func.name, call_loc, v.out),
                        v.heap)
          [] v.out.k = "panic" -> Applied(Panic, v.heap)
          [] OTHER -> Applied(EscapeOfBody(v.out), v.heap)])

\* eval_call on a user function: the check of the number of arguments, the
\* bindings, the body.  `num_params-1` is a subtraction on usize.
call_func(h, func, source, arg_vals, call_loc) ==
    IF func.collect_args /\ Len(func.args) = 0 THEN Applied(UsizeOverflow, h)
    ELSE IF func.collect_args /\ Len(func.args) - 1 > Len(arg_vals)
        THEN Applied(AtLoc("TooFewArgs"), h)
    ELSE IF ~func.collect_args /\ Len(func.args) # Len(arg_vals)
        THEN Applied(AtLoc("ArgNumMismatch"), h)
    ELSE IF func.collect_args
        THEN CallBody(Alloc(h, ListCell(SubSeq(arg_vals, Len(func.args),
                                               Len(arg_vals)))),
                      func, CallBindings(func, arg_vals, source, NewHandle(h)),
                      call_loc)
    ELSE CallBody(h, func, CallBindings(func, arg_vals, source, 0), call_loc)

\* eval_call, the arguments and the called expression evaluated.
CallValue(h, func_val, arg_vals, call_loc) ==
    IF func_val.t = "builtin" THEN
        Applied(ContextCall("EvalBuiltinFuncCallFailed", Some(NamePrint), call_loc,
                        print(IF HasSource(func_val) THEN Some(func_val.source)
                              ELSE None, arg_vals)), h)
    ELSE IF func_val.t = "func" THEN
        call_func(h, h[func_val.f],
                  IF HasSource(func_val) THEN Some(func_val.source) ELSE None,
                  arg_vals, call_loc)
    ELSE Applied(AtLoc("CannotCallNonFunc"), h)

\* eval_call: the arguments, then the called expression, then the call.
eval_call(h, scs, func, args, loc) ==
    With([arg_vals \in {eval_list_items(h, scs, args, 1, <<>>)} |->
        IF arg_vals.out.k # "ok"
        THEN Applied(Context("EvalCallArgsFailed", arg_vals.out), arg_vals.heap)
        ELSE With([func_val \in {eval_expr(arg_vals.heap, scs, func)} |->
            IF func_val.out.k # "ok"
            THEN Applied(Context("EvalCallFuncFailed", func_val.out), func_val.heap)
            ELSE CallValue(func_val.heap, func_val.out.v, arg_vals.out.v, loc)])])

\* eval_prog: the statements in a scope pushed on the given stack, with the
\* global bindings; an Escape that reaches the program is an error at the
\* location of its statement.
eval_prog(h, scs, global_bindings, stmts) ==
    With([v \in {eval_stmts(h, scs, global_bindings, stmts)} |->
        [v EXCEPT !.out =
            CASE v.out.k = "err" -> Context("EvalStmtsFailed", v.out)
              [] v.out.k = "break" -> AtLocAt("BreakOutsideLoop", v.out.loc)
              [] v.out.k = "continue" -> AtLocAt("ContinueOutsideLoop", v.out.loc)
              [] v.out.k = "return" -> AtLocAt("ReturnOutsideFunction", v.out.loc)
              [] OTHER -> v.out]])

\* The outcome of an expression evaluated as a statement: its value is
\* dropped.
ExprOut(out) == IF out.k = "ok" THEN StmtOk ELSE out

\* The scope at the bottom of the running stack, and the scopes of the heap.
GlobalScope == ScopeAt(heap, scopes, 1)
AllScopes == {c \in 1..Len(heap) : heap[c].k = "scope"}

----------------------------------------------------------------------------
(* SpecArith: `a op b` on every pair of integers of the model's width.     *)

NoOp == "none"

InitArith ==
    /\ heap = <<ScopeCell(EmptyScope)>>
    /\ scopes = <<1>>
    /\ res = Idle
    /\ hist = <<>>
    /\ last \in {[a |-> a, b |-> b, op |-> NoOp] : a \in I64, b \in I64}

\* Evaluate the expression `a op b`.
ApplyArith(op) ==
    /\ res = Idle
    /\ \E r \in {eval_expr(heap, scopes, EBin(op, EInt(last.a), EInt(last.b)))} :
          /\ res' = r.out
          /\ heap' = r.heap
    /\ last' = [last EXCEPT !.op = op]
    /\ UNCHANGED <<scopes, hist>>

NextArith == \E op \in ArithOps : ApplyArith(op)

SpecArith == InitArith /\ [][NextArith]_vars

\* The mathematical result of `a op b`, where it is defined.
ExactDefined(op, a, b) == op \in {"Div", "Mod"} => b # 0
Exact(op, a, b) ==
    CASE op = "Sum" -> a + b
      [] op = "Sub" -> a - b
      [] op = "Mul" -> a * b
      [] op = "Div" -> TruncDiv(a, b)
      [] op = "Mod" -> TruncRem(a, b)

IsRuntimeError(r) == r.k = "err" /\ root_error(r.e) = "Runtime"

\* C9: for all integers a, b and every operator of + - * / %, `a op b`
\* yields the exact result when it lies in the integer range, or fails with
\* a Runtime error; it never wraps and never aborts the interpreter.
C9_ExactOrRuntimeError ==
    last.op # NoOp =>
        \/ /\ ExactDefined(last.op, last.a, last.b)
           /\ InI64(Exact(last.op, last.a, last.b))
           /\ res = Ok(VInt(Exact(last.op, last.a, last.b)))
        \/ IsRuntimeError(res)

\* What the code does: the same, except that `%` aborts for b = 0 and for
\* the least integer with b = -1.
C9_AbortsOnlyInRem ==
    last.op # NoOp =>
        IF last.op = "Mod" /\ RemPanics(last.a, last.b) THEN res = Panic
        ELSE C9_ExactOrRuntimeError

C9_RemByZeroAborts ==
    last.op = "Mod" /\ last.a = 1 /\ last.b = 0 /\ res = Panic

----------------------------------------------------------------------------
(* SpecCatch: `e?` on every outcome of e: a value, or an error chain of up  *)
(* to MaxChain wrappers around a root error.                               *)

\* Wrappers whose source is a Box<Error>.
Wrappers ==
    {"AtLoc", "EvalExprFailed", "EvalCallFailed", "EvalFuncCallFailed",
     "EvalBuiltinFuncCallFailed"}
\* Root errors: local kinds, and local kinds whose source is an error of
\* another crate.
Roots ==
    {<<"Runtime">>, <<"NegativeIndex">>, <<"Undefined">>, <<"InvalidBinOpTypes">>,
     <<"BreakOutsideLoop">>, <<"Dev">>,
     <<"CastFailed", "TryFromIntError">>,
     <<"StringConstructionFailed", "FromUtf8Error">>}

RECURSIVE WrapperSeqs(_)
WrapperSeqs(n) ==
    IF n = 0 THEN {<<>>}
    ELSE WrapperSeqs(n - 1)
         \cup {<<w>> \o ws : w \in Wrappers, ws \in WrapperSeqs(n - 1)}

Chains == {ws \o root : ws \in WrapperSeqs(MaxChain), root \in Roots}
CatchValues == {VNull, VBool(FALSE), VInt(0), VStr(<<>>)}
InnerOutcomes == {Ok(v) : v \in CatchValues} \cup {Err(c) : c \in Chains}

InitCatch ==
    /\ heap = <<ScopeCell(EmptyScope)>>
    /\ scopes = <<1>>
    /\ res = Idle
    /\ hist = <<>>
    /\ last \in {[inner |-> o] : o \in InnerOutcomes}

\* The CatchAsBool arm of eval_expr on the outcome of its operand.
EvalCatch ==
    /\ res = Idle
    /\ \E r \in {CatchAsBool(heap, last.inner)} :
          /\ res' = r.out
          /\ heap' = r.heap
    /\ UNCHANGED <<scopes, last, hist>>

NextCatch == EvalCatch

SpecCatch == InitCatch /\ [][NextCatch]_vars

\* The deepest local error of a chain: the last element that is an error of
\* this crate.
DeepestLocal(chain) ==
    chain[CHOOSE i \in 1..Len(chain) :
            /\ IsLocal(chain[i])
            /\ \A j \in (i + 1)..Len(chain) : ~IsLocal(chain[j])]

IsPair(h, r, first, second) ==
    /\ r.k = "ok"
    /\ r.v.t = "list"
    /\ h[r.v.h].items = <<first, second>>

\* C1: `e?` yields [value, true] when e succeeds; [null, false] when e
\* fails and the deepest local error of the chain is Runtime, whatever
\* wrappers lie above it; and fails, with the failure of e as its source and
\* no list made, when the deepest local error is of another kind.
C1_CatchAsBool ==
    res # Idle =>
        IF last.inner.k = "ok"
            THEN IsPair(heap, res, last.inner.v, VBool(TRUE))
        ELSE IF DeepestLocal(last.inner.e) = "Runtime"
            THEN IsPair(heap, res, VNull, VBool(FALSE))
        ELSE /\ res.k = "err"
             /\ Tail(res.e) = last.inner.e
             /\ heap = <<ScopeCell(EmptyScope)>>

\* A Runtime error below an AtLoc and a function-call wrapper is caught.
C1_RuntimeCaughtAcrossCall ==
    /\ last.inner = Err(<<"EvalFuncCallFailed", "AtLoc", "Runtime">>)
    /\ IsPair(heap, res, VNull, VBool(FALSE))


----------------------------------------------------------------------------
(* SpecFor: an object built by up to MaxInserts insertions (pairs of its   *)
(* literal, then index and property assignments) and iterated by `for`.    *)

NameO == <<111>>
NameLog == <<108, 111, 103>>
NameK == <<107>>
NameV == <<118>>
\* "B" < "a" < "ab" < "b" in the order of String.
ForKeys == {<<97>>, <<98>>, <<97, 98>>, <<66>>}
ForVals == {1, 2}
Insert(key, n) == [key |-> key, n |-> n]
Inserts == {Insert(key, n) : key \in ForKeys, n \in ForVals}

RECURSIVE InsertSeqs(_)
InsertSeqs(n) ==
    IF n = 0 THEN {<<>>}
    ELSE InsertSeqs(n - 1)
         \cup {Append(ps, i) : ps \in InsertSeqs(n - 1), i \in Inserts}

LiteralOf(ps) == EObject([i \in 1..Len(ps) |-> Pair(EStr(ps[i].key), EInt(ps[i].n))])

InitFor ==
    /\ heap = <<ScopeCell(EmptyScope)>>
    /\ scopes = <<1>>
    /\ res = Idle
    /\ last = [k |-> "init"]
    /\ hist = <<>>

Running == res.k \in {"idle", "none", "ok"}

\* `log := []; o := {k1: n1, ...};`
DeclareObject(ps) ==
    /\ last.k = "init"
    /\ \E r \in {eval_stmts_with_scope_stack(heap, scopes,
                    <<SDeclare(EVar(NameLog), EList(<<>>, FALSE)),
                      SDeclare(EVar(NameO), LiteralOf(ps))>>, 1)} :
          /\ res' = r.out
          /\ heap' = r.heap
          /\ scopes' = r.scopes
    /\ last' = [k |-> "declare"]
    /\ hist' = ps

\* `o[key] = n;`
InsertIndex(i) ==
    /\ last.k \in {"declare", "insert"}
    /\ Running
    /\ Len(hist) < MaxInserts
    /\ \E r \in {eval_stmt(heap, scopes,
                          SAssign(EIndex(EVar(NameO), EStr(i.key)), EInt(i.n)))} :
          /\ res' = r.out
          /\ heap' = r.heap
          /\ scopes' = r.scopes
    /\ last' = [k |-> "insert", by |-> "index"]
    /\ hist' = Append(hist, i)

\* `o.key = n;`
InsertProp(i) ==
    /\ last.k \in {"declare", "insert"}
    /\ Running
    /\ Len(hist) < MaxInserts
    /\ \E r \in {eval_stmt(heap, scopes,
                          SAssign(EProp(EVar(NameO), i.key), EInt(i.n)))} :
          /\ res' = r.out
          /\ heap' = r.heap
          /\ scopes' = r.scopes
    /\ last' = [k |-> "insert", by |-> "prop"]
    /\ hist' = Append(hist, i)

\* The iterated expressions: `o` and the spread `{..o}`.
ForIters == {EVar(NameO), EObject(<<Single(EVar(NameO), TRUE, FALSE)>>)}

\* The loop body `log = log + [[k, v]];`
LogBody ==
    <<SAssign(EVar(NameLog),
              EBin("Sum", EVar(NameLog),
                   EList(<<Item(EList(<<Item(EVar(NameK)), Item(EVar(NameV))>>,
                                      FALSE))>>, FALSE)))>>

\* `for [k, v] in iter { log = log + [[k, v]]; }`
RunFor(iter) ==
    /\ last.k \in {"declare", "insert"}
    /\ Running
    /\ \E r \in {eval_stmt(heap, scopes,
                          SFor(EList(<<Item(EVar(NameK)), Item(EVar(NameV))>>, FALSE),
                               iter, LogBody))} :
          /\ res' = r.out
          /\ heap' = r.heap
          /\ scopes' = r.scopes
    /\ last' = [k |-> "for"]
    /\ UNCHANGED hist

NextFor ==
    \/ \E ps \in InsertSeqs(MaxInserts) : DeclareObject(ps)
    \/ \E i \in Inserts : InsertIndex(i)
    \/ \E i \in Inserts : InsertProp(i)
    \/ \E iter \in ForIters : RunFor(iter)

SpecFor == InitFor /\ [][NextFor]_vars

\* The visits the loop body logged: the items of `log`, each a list [k, v].
Logged ==
    LET log == heap[get(heap, scopes, NameLog).v.h].items
    IN [i \in 1..Len(log) |-> heap[log[i].h].items]

\* The value last inserted under a key.
LastInserted(key) ==
    hist[CHOOSE i \in 1..Len(hist) :
            /\ hist[i].key = key
            /\ \A j \in (i + 1)..Len(hist) : hist[j].key # key].n

\* C8: `for [k, v] in o` runs its body once per distinct key of o, in
\* strictly ascending lexicographic order of the keys, with v the value
\* stored under k, whatever the order of the insertions.
C8_ForVisitsKeysAscending ==
    last.k = "for" =>
        /\ res = StmtOk
        /\ Len(Logged) = Cardinality({hist[i].key : i \in 1..Len(hist)})
        /\ \A i \in 1..Len(Logged) :
              /\ Len(Logged[i]) = 2
              /\ Logged[i][1].t = "str"
              /\ \E j \in 1..Len(hist) : hist[j].key = Logged[i][1].s
              /\ Logged[i][2] = VInt(LastInserted(Logged[i][1].s))
        /\ \A i \in 1..(Len(Logged) - 1) : LexLess(Logged[i][1].s, Logged[i + 1][1].s)

\* Keys inserted in descending order, one of them twice, visited ascending.
C8_DescendingInsertsVisitedAscending ==
    /\ last.k = "for"
    /\ hist = <<Insert(<<98>>, 1), Insert(<<97, 98>>, 1), Insert(<<98>>, 2)>>
    /\ Len(Logged) = 2
    /\ Logged[1] = <<VStr(<<97, 98>>), VInt(1)>>
    /\ Logged[2] = <<VStr(<<98>>), VInt(2)>>


----------------------------------------------------------------------------
(* SpecEq: `x == y` and `y == x` on every pair of containers of up to      *)
(* MaxLen integers and strings.                                            *)

NameX == <<120>>
NameY == <<121>>
EqKeys == {<<97>>, <<109>>, <<122>>}
EqVals == {VInt(1), VStr(<<115>>)}

RECURSIVE SeqsUpTo(_, _)
SeqsUpTo(S, n) ==
    IF n = 0 THEN {<<>>}
    ELSE SeqsUpTo(S, n - 1) \cup {Append(q, x) : q \in SeqsUpTo(S, n - 1), x \in S}

\* The BTreeMap made by inserting a sequence of entries.
PropsOf(entries) == InsertAll(<<>>, entries, 1)

EqCells ==
    {ListCell(items) : items \in SeqsUpTo(EqVals, MaxLen)}
    \cup {ObjectCell(PropsOf(entries)) :
            entries \in SeqsUpTo({PairOf(key, val) : key \in EqKeys, val \in EqVals},
                                 MaxLen)}

HandleTo(h, a) == IF h[a].k = "list" THEN VList(a) ELSE VObject(a)
ScopeOf2(n1, v1, n2, v2) ==
    [n \in {n1, n2} |-> IF n = n1 THEN ScopeEntry(v1, NoLoc, Var)
                         ELSE ScopeEntry(v2, NoLoc, Var)]

InitEq ==
    /\ heap \in {<<c1, c2, ScopeCell(ScopeOf2(NameX, HandleTo(<<c1, c2>>, 1),
                                                NameY, HandleTo(<<c1, c2>>, 2)))>> :
                    c1 \in EqCells, c2 \in EqCells}
    /\ scopes = <<3>>
    /\ res = Idle
    /\ last = [k |-> "init"]
    /\ hist = [xy |-> Idle, yx |-> Idle]

\* Evaluate `x == y`.
EvalEqXY ==
    /\ hist.xy = Idle
    /\ \E r \in {eval_expr(heap, scopes, EBin("Eq", EVar(NameX), EVar(NameY)))} :
          /\ res' = r.out
          /\ heap' = r.heap
          /\ hist' = [hist EXCEPT !.xy = r.out]
    /\ last' = [k |-> "xy"]
    /\ UNCHANGED scopes

\* Evaluate `y == x`.
EvalEqYX ==
    /\ hist.yx = Idle
    /\ \E r \in {eval_expr(heap, scopes, EBin("Eq", EVar(NameY), EVar(NameX)))} :
          /\ res' = r.out
          /\ heap' = r.heap
          /\ hist' = [hist EXCEPT !.yx = r.out]
    /\ last' = [k |-> "yx"]
    /\ UNCHANGED scopes

NextEq == EvalEqXY \/ EvalEqYX

SpecEq == InitEq /\ [][NextEq]_vars

\* Two outcomes of `==` are the same: the same boolean, or both a Runtime
\* error (a type mismatch).
SameOutcome(p, q) ==
    \/ p.k = "ok" /\ q.k = "ok" /\ p.v = q.v
    \/ IsRuntimeError(p) /\ IsRuntimeError(q)

\* C6: `x == y` and `y == x` have the same outcome: both true, both false,
\* or both a type-mismatch error.
C6_EqSymmetric ==
    (hist.xy # Idle /\ hist.yx # Idle) => SameOutcome(hist.xy, hist.yx)

\* x = {a: 1, m: 1} and y = {m: "s", z: 1}: `x == y` is false (y has no
\* key a), `y == x` raises (the values under m differ in type).
C6_FalseOneWayErrorTheOther ==
    /\ heap[1] = ObjectCell(<<PairOf(<<97>>, VInt(1)), PairOf(<<109>>, VInt(1))>>)
    /\ heap[2] = ObjectCell(<<PairOf(<<109>>, VStr(<<115>>)), PairOf(<<122>>, VInt(1))>>)
    /\ hist.xy = Ok(VBool(FALSE))
    /\ IsRuntimeError(hist.yx)


----------------------------------------------------------------------------
(* SpecIndex: `xs[i]` and `xs[i]?` on every list of up to MaxLen elements   *)
(* and every integer i.                                                     *)

NameXs == <<120, 115>>
NameI == <<105>>
IndexVals == {VNull, VInt(7), VStr(<<115>>)}

InitIndex ==
    /\ heap \in {<<ListCell(items), ScopeCell(ScopeOf2(NameXs, VList(1),
                                                        NameI, VInt(i)))>> :
                    items \in SeqsUpTo(IndexVals, MaxLen), i \in I64}
    /\ scopes = <<2>>
    /\ res = Idle
    /\ last = [k |-> "init"]
    /\ hist = [read |-> Idle, caught |-> Idle]

\* Evaluate `xs[i]`.
ReadIndex ==
    /\ hist.read = Idle
    /\ \E r \in {eval_expr(heap, scopes, EIndex(EVar(NameXs), EVar(NameI)))} :
          /\ res' = r.out
          /\ heap' = r.heap
          /\ hist' = [hist EXCEPT !.read = r.out]
    /\ last' = [k |-> "read"]
    /\ UNCHANGED scopes

\* Evaluate `xs[i]?`.
ReadIndexCatch ==
    /\ hist.caught = Idle
    /\ \E r \in {eval_expr(heap, scopes,
                           ECatch(EIndex(EVar(NameXs), EVar(NameI))))} :
          /\ res' = r.out
          /\ heap' = r.heap
          /\ hist' = [hist EXCEPT !.caught = r.out]
    /\ last' = [k |-> "caught"]
    /\ UNCHANGED scopes

NextIndex == ReadIndex \/ ReadIndexCatch

SpecIndex == InitIndex /\ [][NextIndex]_vars

TheList == heap[1].items
TheIndex == GlobalScope[NameI].v.n
InBounds == 0 <= TheIndex /\ TheIndex < Len(TheList)

\* C4 as stated: an in-bounds `xs[i]` is the i-th element; for i < 0 and
\* for i >= len(xs) it fails with a Runtime error, so `xs[i]?` is
\* [null, false].
C4_ElementOrRuntimeError ==
    /\ hist.read # Idle =>
          IF InBounds THEN hist.read = Ok(TheList[TheIndex + 1])
          ELSE IsRuntimeError(hist.read)
    /\ hist.caught # Idle =>
          IF InBounds THEN IsPair(heap, hist.caught, TheList[TheIndex + 1], VBool(TRUE))
          ELSE IsPair(heap, hist.caught, VNull, VBool(FALSE))

\* C4, amended: an in-bounds `xs[i]` is the i-th element; for i >= len(xs)
\* it fails with a Runtime error and `xs[i]?` is [null, false]; for i < 0 it
\* fails with a NegativeIndex error, which `xs[i]?` does not catch.
C4_ElementOrRuntimeOrNegativeIndex ==
    /\ hist.read # Idle =>
          IF InBounds THEN hist.read = Ok(TheList[TheIndex + 1])
          ELSE IF TheIndex >= Len(TheList) THEN IsRuntimeError(hist.read)
          ELSE hist.read.k = "err" /\ root_error(hist.read.e) = "NegativeIndex"
    /\ hist.caught # Idle =>
          IF InBounds THEN IsPair(heap, hist.caught, TheList[TheIndex + 1], VBool(TRUE))
          ELSE IF TheIndex >= Len(TheList)
              THEN IsPair(heap, hist.caught, VNull, VBool(FALSE))
          ELSE /\ hist.caught.k = "err"
               /\ hist.caught.e[1] = "EvalCatchAsBoolFailed"
               /\ root_error(hist.caught.e) = "NegativeIndex"

\* `xs[-1]` on a list of two elements fails with NegativeIndex and `xs[-1]?`
\* fails too.
C4_NegativeIndexNotCaught ==
    /\ Len(TheList) = 2
    /\ TheIndex = -1
    /\ hist.read.k = "err" /\ root_error(hist.read.e) = "NegativeIndex"
    /\ hist.caught.k = "err"


----------------------------------------------------------------------------
(* SpecConcat: `c := a + b` on every pair of lists of up to MaxLen          *)
(* elements (integers, null, a function, a nested list), b possibly the    *)
(* same list as a.                                                          *)

NameA == <<97>>
NameB == <<98>>
NameC == <<99>>
\* heap[1] is a function, heap[2] a list; heap[3] is a and heap[4] is b;
\* heap[5] is the scope of the program.
ConcatVals == {VNull, VInt(1), VFunc(1), VList(2)}

InitConcat ==
    /\ heap \in {<<Func(None, <<>>, FALSE, <<>>, <<5>>), ListCell(<<VInt(2)>>),
                     ListCell(xs), ListCell(ys),
                     ScopeCell(ScopeOf2(NameA, VList(3), NameB, VList(b)))>> :
                    xs \in SeqsUpTo(ConcatVals, MaxLen),
                    ys \in SeqsUpTo(ConcatVals, MaxLen), b \in {3, 4}}
    /\ scopes = <<5>>
    /\ res = Idle
    /\ last = [k |-> "init"]
    /\ hist = [a |-> heap[3].items, b |-> heap[GlobalScope[NameB].v.h].items,
               concat |-> Idle, not_a |-> Idle, not_b |-> Idle, equal |-> Idle,
               mutated |-> FALSE]

\* `c := a + b;`
Concat ==
    /\ last.k = "init"
    /\ \E r \in {eval_stmt(heap, scopes,
                          SDeclare(EVar(NameC), EBin("Sum", EVar(NameA), EVar(NameB))))} :
          /\ res' = r.out
          /\ heap' = r.heap
          /\ scopes' = r.scopes
          /\ hist' = [hist EXCEPT !.concat = r.out]
    /\ last' = [k |-> "concat"]

\* `c !== a` and `c !== b`.
CheckFresh ==
    /\ last.k # "init"
    /\ hist.not_a = Idle
    /\ \E r \in {eval_expr(heap, scopes, EBin("RefNe", EVar(NameC), EVar(NameA)))} :
       \E q \in {eval_expr(r.heap, scopes, EBin("RefNe", EVar(NameC), EVar(NameB)))} :
          /\ res' = q.out
          /\ heap' = q.heap
          /\ hist' = [hist EXCEPT !.not_a = r.out, !.not_b = q.out]
    /\ last' = [k |-> "fresh"]
    /\ UNCHANGED scopes

\* `c == [..a, ..b]`, before any mutation of c.
CheckEqual ==
    /\ last.k # "init"
    /\ ~hist.mutated
    /\ hist.equal = Idle
    /\ \E r \in {eval_expr(heap, scopes,
                    EBin("Eq", EVar(NameC),
                         EList(<<SpreadItem(EVar(NameA)), SpreadItem(EVar(NameB))>>,
                               FALSE)))} :
          /\ res' = r.out
          /\ heap' = r.heap
          /\ hist' = [hist EXCEPT !.equal = r.out]
    /\ last' = [k |-> "equal"]
    /\ UNCHANGED scopes

\* The mutations of c: `c[0] = 9;`, `c += [9];` (a rebinding, not a
\* mutation of the list) and `c[0:1] = [9];`.
ConcatMutations ==
    {SAssign(EIndex(EVar(NameC), EInt(0)), EInt(9)),
     SOpAssign(EVar(NameC), "Sum", EList(<<Item(EInt(9))>>, FALSE)),
     SAssign(ERangeIndex(EVar(NameC), Some(EInt(0)), Some(EInt(1))),
             EList(<<Item(EInt(9))>>, FALSE))}

MutateC(stmt) ==
    /\ last.k # "init"
    /\ ~hist.mutated
    /\ \E r \in {eval_stmt(heap, scopes, stmt)} :
          /\ res' = r.out
          /\ heap' = r.heap
          /\ scopes' = r.scopes
    /\ last' = [k |-> "mutated"]
    /\ hist' = [hist EXCEPT !.mutated = TRUE]

NextConcat ==
    \/ Concat
    \/ CheckFresh
    \/ CheckEqual
    \/ \E stmt \in ConcatMutations : MutateC(stmt)

SpecConcat == InitConcat /\ [][NextConcat]_vars

\* C5: `a + b` succeeds with a fresh list c: `c !== a` and `c !== b` are
\* true, `c == [..a, ..b]` is true, and a and b keep their elements, also
\* after a mutation of c.
C5_ConcatFreshAndEqual ==
    /\ heap[3].items = hist.a
    /\ heap[GlobalScope[NameB].v.h].items = hist.b
    /\ last.k # "init" => hist.concat = StmtOk
    /\ hist.not_a # Idle => hist.not_a = Ok(VBool(TRUE)) /\ hist.not_b = Ok(VBool(TRUE))
    /\ hist.equal # Idle => hist.equal = Ok(VBool(TRUE))


----------------------------------------------------------------------------
(* SpecBind: one bind of a pattern over the targets a, b and _ (a          *)
(* declaration, an assignment, a for-pattern, the parameters of a call or  *)
(* of a function declaration), in an empty scope or one that holds a and   *)
(* b, and a second bind of the same pattern after a declaration.           *)

NameF == <<102>>
NameP == <<112>>
NameQ == <<113>>
NameR == <<114>>
NameS == <<115>>
Targets == {NameA, NameB, Underscore}

Shape(lhs, rhs, ts) == [lhs |-> lhs, rhs |-> rhs, ts |-> ts]
ListOf(exprs) == EList([i \in 1..Len(exprs) |-> Item(exprs[i])], FALSE)

\* `t`, `[t1, t2]`, `[t1, ..t2]` and `{t1, ..t2}`, with a literal to bind.
FlatShapes ==
    {Shape(EVar(t), EInt(1), <<t>>) : t \in Targets}
    \cup {Shape(ListOf(<<EVar(t1), EVar(t2)>>), ListOf(<<EInt(1), EInt(2)>>),
                <<t1, t2>>) : t1 \in Targets, t2 \in Targets}
    \cup {Shape(EList(<<Item(EVar(t1)), Item(EVar(t2))>>, TRUE),
                ListOf(<<EInt(1), EInt(2), EInt(3)>>),
                <<t1, t2>>) : t1 \in Targets, t2 \in Targets}
    \cup {Shape(EObject(<<Single(EVar(t1), FALSE, FALSE), Single(EVar(t2), FALSE, TRUE)>>),
                EObject(<<Pair(EStr(NameA), EInt(1)), Pair(EStr(NameB), EInt(2))>>),
                <<t1, t2>>) : t1 \in Targets, t2 \in Targets}

\* `[t1, [t2, t3]]`, `{p: t1, q: {r: t2, s: t3}}` and `[t1, {p: t2}, t3]`.
NestedShapes ==
    {Shape(ListOf(<<EVar(t1), ListOf(<<EVar(t2), EVar(t3)>>)>>),
           ListOf(<<EInt(1), ListOf(<<EInt(2), EInt(3)>>)>>),
           <<t1, t2, t3>>) : t1 \in Targets, t2 \in Targets, t3 \in Targets}
    \cup {Shape(EObject(<<Pair(EStr(NameP), EVar(t1)),
                          Pair(EStr(NameQ),
                               EObject(<<Pair(EStr(NameR), EVar(t2)),
                                         Pair(EStr(NameS), EVar(t3))>>))>>),
                EObject(<<Pair(EStr(NameP), EInt(1)),
                          Pair(EStr(NameQ),
                               EObject(<<Pair(EStr(NameR), EInt(2)),
                                         Pair(EStr(NameS), EInt(3))>>))>>),
                <<t1, t2, t3>>) : t1 \in Targets, t2 \in Targets, t3 \in Targets}
    \cup {Shape(ListOf(<<EVar(t1), EObject(<<Pair(EStr(NameP), EVar(t2))>>), EVar(t3)>>),
                ListOf(<<EInt(1), EObject(<<Pair(EStr(NameP), EInt(2))>>), EInt(3)>>),
                <<t1, t2, t3>>) : t1 \in Targets, t2 \in Targets, t3 \in Targets}

BindShapes == FlatShapes \cup NestedShapes

\* The bodies of a loop or a function: empty, and `_;`.
Bodies == {<<>>, <<SExpr(EVar(Underscore))>>}

InitBind ==
    /\ heap \in {<<ScopeCell(EmptyScope)>>,
                 <<ScopeCell(ScopeOf2(NameA, VInt(0), NameB, VInt(0)))>>}
    /\ scopes = <<1>>
    /\ res = Idle
    /\ last = [k |-> "init"]
    /\ hist = <<GlobalScope>>


\* The bind made: its kind, its pattern, the targets in the order of the
\* pattern, and whether every target can be bound (a declaration where no
\* target is declared yet, an assignment where every target is).
Made(kind, shape, ts, reach) ==
    [k |-> "bind", kind |-> kind, shape |-> shape, ts |-> ts, reach |-> reach]

\* `lhs := rhs;`
DeclarePattern(shape) ==
    /\ last.k = "init"
    /\ \E r \in {eval_stmt(heap, scopes, SDeclare(shape.lhs, shape.rhs))} :
          /\ res' = r.out
          /\ heap' = r.heap
          /\ scopes' = r.scopes
    /\ last' = Made("declare", shape, shape.ts, GlobalScope = EmptyScope)
    /\ UNCHANGED hist

\* `lhs = rhs;`
AssignPattern(shape) ==
    /\ last.k = "init"
    /\ \E r \in {eval_stmt(heap, scopes, SAssign(shape.lhs, shape.rhs))} :
          /\ res' = r.out
          /\ heap' = r.heap
          /\ scopes' = r.scopes
    /\ last' = Made("assign", shape, shape.ts, GlobalScope # EmptyScope)
    /\ UNCHANGED hist

\* `for [key, lhs] in [rhs] { body }`
ForPattern(key, shape, body) ==
    /\ last.k = "init"
    /\ \E r \in {eval_stmt(heap, scopes,
                          SFor(ListOf(<<EVar(key), shape.lhs>>),
                               ListOf(<<shape.rhs>>), body))} :
          /\ res' = r.out
          /\ heap' = r.heap
          /\ scopes' = r.scopes
    /\ last' = [body |-> body] @@ Made("for", shape, <<key>> \o shape.ts, TRUE)
    /\ UNCHANGED hist

\* The call of a function of the current scopes with the single parameter
\* lhs and the body `body`, on the argument rhs.
CallPattern(shape, body) ==
    /\ last.k = "init"
    /\ \E v \in {eval_list_items(heap, scopes, <<Item(shape.rhs)>>, 1, <<>>)} :
       \E r \in {call_func(v.heap, Func(None, <<shape.lhs>>, FALSE, body, scopes),
                           None, v.out.v, NoLoc)} :
          /\ res' = ExprOut(r.out)
          /\ heap' = r.heap
          /\ scopes' = scopes
    /\ last' = [body |-> body] @@ Made("call", shape, shape.ts, TRUE)
    /\ UNCHANGED hist

\* The call of a function with the two parameters t1 and t2: one bind each.
CallNames(t1, t2, body) ==
    /\ last.k = "init"
    /\ \E r \in {call_func(heap, Func(None, <<EVar(t1), EVar(t2)>>, FALSE, body,
                                      scopes),
                           None, <<VInt(1), VInt(2)>>, NoLoc)} :
          /\ res' = ExprOut(r.out)
          /\ heap' = r.heap
          /\ UNCHANGED scopes
    /\ last' = [k |-> "call2", ts |-> <<t1, t2>>, body |-> body]
    /\ UNCHANGED hist

\* `fn f(params) { }`
DeclareFunc(params) ==
    /\ last.k = "init"
    /\ \E r \in {eval_stmt(heap, scopes, SFunc(NameF, params.args, FALSE, <<>>))} :
          /\ res' = r.out
          /\ heap' = r.heap
          /\ scopes' = r.scopes
    /\ last' = [k |-> "func", ts |-> params.ts]
    /\ UNCHANGED hist

\* After `lhs := rhs;` succeeded: `lhs = rhs;`, a second bind of the names.
Rebind ==
    /\ last.k = "bind"
    /\ last.kind = "declare"
    /\ res = StmtOk
    /\ \E r \in {eval_stmt(heap, scopes, SAssign(last.shape.lhs, last.shape.rhs))} :
          /\ res' = r.out
          /\ heap' = r.heap
          /\ scopes' = r.scopes
    /\ last' = [last EXCEPT !.k = "rebind"]
    /\ UNCHANGED hist

\* Parameter lists: one pattern, or three names.
ParamLists ==
    {[args |-> <<shape.lhs>>, ts |-> shape.ts] : shape \in BindShapes}
    \cup {[args |-> <<EVar(t1), EVar(t2), EVar(t3)>>, ts |-> <<t1, t2, t3>>] :
            t1 \in Targets, t2 \in Targets, t3 \in Targets}

NextBind ==
    \/ \E shape \in BindShapes : DeclarePattern(shape)
    \/ \E shape \in BindShapes : AssignPattern(shape)
    \/ \E key \in Targets, shape \in BindShapes, body \in Bodies :
          ForPattern(key, shape, body)
    \/ \E shape \in BindShapes, body \in Bodies : CallPattern(shape, body)
    \/ \E t1 \in Targets, t2 \in Targets, body \in Bodies : CallNames(t1, t2, body)
    \/ \E params \in ParamLists : DeclareFunc(params)
    \/ Rebind

SpecBind == InitBind /\ [][NextBind]_vars


\* The names of a sequence of targets, and the second occurrences in it.
Named(ts) == {ts[i] : i \in 1..Len(ts)} \ {Underscore}
IsSecond(ts, j) == ts[j] # Underscore /\ \E i \in 1..(j - 1) : ts[i] = ts[j]
HasDup(ts) == \E j \in 1..Len(ts) : IsSecond(ts, j)
SecondOcc(ts) ==
    CHOOSE j \in 1..Len(ts) : IsSecond(ts, j) /\ \A i \in 1..(j - 1) : ~IsSecond(ts, i)
RootIs(r, kind) == r.k = "err" /\ root_error(r.e) = kind

\* C2: a bind whose pattern holds a name other than `_` twice, at any
\* depth, fails; where the targets before the second occurrence can be
\* bound it fails with AlreadyInBinding for that name, those targets bound
\* and no other.  A pattern without a repeated name never fails with
\* AlreadyInBinding, also when its names were bound by the bind before or
\* are the parameters of one call: every bind starts with no names.
C2_DuplicateNameInBinding ==
    /\ last.k = "bind" =>
          /\ HasDup(last.ts) => res.k = "err"
          /\ (HasDup(last.ts) /\ last.reach) =>
                /\ RootIs(res, "AlreadyInBinding")
                /\ res.name = last.ts[SecondOcc(last.ts)]
                /\ last.kind = "declare" =>
                      DOMAIN GlobalScope
                          = Named(SubSeq(last.ts, 1, SecondOcc(last.ts) - 1))
          /\ ~HasDup(last.ts) => ~RootIs(res, "AlreadyInBinding")
          /\ (~HasDup(last.ts) /\ last.reach /\ last.kind \in {"declare", "assign"})
                => res = StmtOk
    /\ last.k = "rebind" => res = StmtOk
    /\ last.k = "call2" => ~RootIs(res, "AlreadyInBinding")

\* `[a, [b, a]] := [1, [2, 3]];` in an empty scope fails with
\* AlreadyInBinding for a, with a and b declared.
C2_NestedDuplicateRejected ==
    /\ last.k = "bind"
    /\ last.kind = "declare"
    /\ last.shape.lhs = ListOf(<<EVar(NameA), ListOf(<<EVar(NameB), EVar(NameA)>>)>>)
    /\ RootIs(res, "AlreadyInBinding")
    /\ res.name = NameA
    /\ hist = <<EmptyScope>>
    /\ DOMAIN GlobalScope = {NameA, NameB}

\* C3: `_` is never defined in any scope; no AlreadyInBinding,
\* AlreadyInScope or DupParamName error names `_`; a bind changes the
\* scopes only at the names of its pattern other than `_`; and a pattern or
\* parameter list of `_` alone succeeds in every mode and every scope, its
\* body finding `_` undefined.
C3_UnderscoreIsSink ==
    /\ \A c \in AllScopes : Underscore \notin DOMAIN heap[c].vars
    /\ (res.k = "err"
        /\ root_error(res.e) \in {"AlreadyInBinding", "AlreadyInScope", "DupParamName"})
          => res.name # Underscore
    /\ last.k \in {"bind", "call2"} =>
          /\ Len(scopes) = 1
          /\ \A n \in DOMAIN hist[1] \ Named(last.ts) :
                n \in DOMAIN GlobalScope /\ GlobalScope[n] = hist[1][n]
          /\ DOMAIN GlobalScope \subseteq DOMAIN hist[1] \cup Named(last.ts)
          /\ Named(last.ts) = {} =>
                IF "body" \in DOMAIN last /\ last.body # <<>>
                THEN RootIs(res, "Undefined") /\ res.name = Underscore
                ELSE res = StmtOk
    /\ (last.k = "func" /\ Named(last.ts) = {}) =>
          /\ res = StmtOk
          /\ DOMAIN GlobalScope = DOMAIN hist[1] \cup {NameF}

\* `[_, {p: _}, _] = [1, {p: 2}, 3];` in a scope without `_` succeeds and
\* leaves the scopes as they were.
C3_UnderscoresAssigned ==
    /\ last.k = "bind"
    /\ last.kind = "assign"
    /\ last.shape.lhs = ListOf(<<EVar(Underscore),
                                 EObject(<<Pair(EStr(NameP), EVar(Underscore))>>),
                                 EVar(Underscore)>>)
    /\ res = StmtOk
    /\ <<GlobalScope>> = hist


----------------------------------------------------------------------------
(* Spec: a program that makes a list and an object, copies them by          *)
(* declaration, by assignment and into containers, and then writes through *)
(* the handles: up to MaxWrites index, op-, range-index and property       *)
(* assignments and calls.                                                   *)

NameW == <<119>>
NameZ == <<122>>
NameL == <<108>>
NameProbe == <<112, 114>>

\* `x := [1, 2]; y := x; w := null; w = x; o := {a: 1}; p := o;
\*  z := [x, o]; k := {l: x}; pr := null;`
Prelude ==
    <<SDeclare(EVar(NameX), ListOf(<<EInt(1), EInt(2)>>)),
      SDeclare(EVar(NameY), EVar(NameX)),
      SDeclare(EVar(NameW), ENull),
      SAssign(EVar(NameW), EVar(NameX)),
      SDeclare(EVar(NameO), EObject(<<Pair(EStr(NameA), EInt(1))>>)),
      SDeclare(EVar(NameP), EVar(NameO)),
      SDeclare(EVar(NameZ), ListOf(<<EVar(NameX), EVar(NameO)>>)),
      SDeclare(EVar(NameK), EObject(<<Pair(EStr(NameL), EVar(NameX))>>)),
      SDeclare(EVar(NameProbe), ENull)>>

\* The expressions that denote the list and the object.
ListHandles ==
    {EVar(NameX), EVar(NameY), EVar(NameW), EIndex(EVar(NameZ), EInt(0)),
     EProp(EVar(NameK), NameL)}
ObjectHandles == {EVar(NameO), EVar(NameP), EIndex(EVar(NameZ), EInt(1))}

\* `H[0] = rhs;` for an integer, a function, the object and the list itself,
\* `H[1] += 1;` and `H[0:1] = [6];`
ListWrite(form, at, rhs) == [form |-> form, at |-> at, rhs |-> rhs]
ListWrites ==
    {ListWrite("set", 0, rhs) : rhs \in {EInt(5), EFunc(<<>>, FALSE, <<>>), EVar(NameO), EVar(NameX)}}
    \cup {ListWrite("op", 1, EInt(1)), ListWrite("range", 0, EInt(6))}
ListStmt(H, w) ==
    CASE w.form = "set" -> SAssign(EIndex(H, EInt(w.at)), w.rhs)
      [] w.form = "op" -> SOpAssign(EIndex(H, EInt(w.at)), "Sum", w.rhs)
      [] w.form = "range" ->
            SAssign(ERangeIndex(H, Some(EInt(w.at)), Some(EInt(w.at + 1))),
                    ListOf(<<w.rhs>>))

\* `H.a = 5;`, `H["b"] = 6;`, `H.a += 1;` and `H["a"] += 1;`
ObjectWrite(form, key, rhs) == [form |-> form, key |-> key, rhs |-> rhs]
ObjectWrites ==
    {ObjectWrite("prop", NameA, EInt(5)), ObjectWrite("index", NameB, EInt(6)),
     ObjectWrite("opprop", NameA, EInt(1)), ObjectWrite("opindex", NameA, EInt(1))}
ObjectStmt(H, w) ==
    CASE w.form = "prop" -> SAssign(EProp(H, w.key), w.rhs)
      [] w.form = "index" -> SAssign(EIndex(H, EStr(w.key)), w.rhs)
      [] w.form = "opprop" -> SOpAssign(EProp(H, w.key), "Sum", w.rhs)
      [] w.form = "opindex" -> SOpAssign(EIndex(H, EStr(w.key)), "Sum", w.rhs)

Init ==
    /\ heap = <<ScopeCell(EmptyScope)>>
    /\ scopes = <<1>>
    /\ res = Idle
    /\ last = [k |-> "init"]
    /\ hist = 0

RunPrelude ==
    /\ last.k = "init"
    /\ \E r \in {eval_stmts_with_scope_stack(heap, scopes, Prelude, 1)} :
          /\ res' = r.out
          /\ heap' = r.heap
          /\ scopes' = r.scopes
    /\ last' = [k |-> "prelude"]
    /\ UNCHANGED hist

\* The list and the object of the prelude, and the value a write is to
\* leave in its slot: the right-hand side, added to the slot's value for an
\* op-assignment.
TheX == get(heap, scopes, NameX).v.h
TheO == get(heap, scopes, NameO).v.h
SlotAfter(old, v, is_op) == IF is_op THEN VInt(old.n + v.n) ELSE v

CanWrite == last.k # "init" /\ Running /\ hist < MaxWrites


\* The write made: the container written, the slot, the form of the
\* statement, the handle it went through and the value expected in the slot.
Written(on, at, form, by, expect) ==
    [k |-> "write", on |-> on, at |-> at, form |-> form, by |-> by,
     expect |-> expect]

\* A write to the list through the handle H.
WriteList(H, w) ==
    /\ CanWrite
    /\ \E v \in {eval_expr(heap, scopes, w.rhs)} :
       \E r \in {eval_stmt(heap, scopes, ListStmt(H, w))} :
          /\ res' = r.out
          /\ heap' = r.heap
          /\ scopes' = r.scopes
          /\ last' = Written("list", w.at, w.form, H,
                             SlotAfter(heap[TheX].items[w.at + 1], v.out.v,
                                       w.form = "op"))
    /\ hist' = hist + 1

\* A write to the object through the handle H.
WriteObject(H, w) ==
    /\ CanWrite
    /\ \E v \in {eval_expr(heap, scopes, w.rhs)} :
       \E r \in {eval_stmt(heap, scopes, ObjectStmt(H, w))} :
          /\ res' = r.out
          /\ heap' = r.heap
          /\ scopes' = r.scopes
          /\ last' = Written("object", w.key, w.form, H,
                             SlotAfter(GetKey(heap[TheO].props, NameA), v.out.v,
                                       w.form \in {"opprop", "opindex"}))
    /\ hist' = hist + 1

\* `f(H)` for `fn f(q) { q[0] = 7; }`: a write through a parameter.
CallWithArgument(H) ==
    /\ CanWrite
    /\ \E a \in {eval_list_items(heap, scopes, <<Item(H)>>, 1, <<>>)} :
       \E r \in {call_func(a.heap,
                           Func(None, <<EVar(NameQ)>>, FALSE,
                                <<SAssign(EIndex(EVar(NameQ), EInt(0)), EInt(7))>>,
                                scopes),
                           None, a.out.v, NoLoc)} :
          /\ res' = ExprOut(r.out)
          /\ heap' = r.heap
          /\ scopes' = scopes
    /\ last' = Written("list", 0, "argument", H, VInt(7))
    /\ hist' = hist + 1

\* `g(H)` for `fn g(q) { x[0] = 8; pr = q[0]; }`: a write through the x of
\* the closure, read through the parameter.
CallClosure(H) ==
    /\ CanWrite
    /\ \E a \in {eval_list_items(heap, scopes, <<Item(H)>>, 1, <<>>)} :
       \E r \in {call_func(a.heap,
                           Func(None, <<EVar(NameQ)>>, FALSE,
                                <<SAssign(EIndex(EVar(NameX), EInt(0)), EInt(8)),
                                  SAssign(EVar(NameProbe),
                                          EIndex(EVar(NameQ), EInt(0)))>>,
                                scopes),
                           None, a.out.v, NoLoc)} :
          /\ res' = ExprOut(r.out)
          /\ heap' = r.heap
          /\ scopes' = scopes
    /\ last' = Written("list", 0, "closure", H, VInt(8))
    /\ hist' = hist + 1

Next ==
    \/ RunPrelude
    \/ \E H \in ListHandles, w \in ListWrites : WriteList(H, w)
    \/ \E H \in ObjectHandles, w \in ObjectWrites : WriteObject(H, w)
    \/ \E H \in ListHandles : CallWithArgument(H)
    \/ \E H \in ListHandles : CallClosure(H)

Spec == Init /\ [][Next]_vars

\* The outcome of an expression in the current state: the value read,
\* without the source it carries.
Unsourced(out) == IF out.k = "ok" THEN Ok(ValueOf(out.v)) ELSE out
Value(expr) == Unsourced(eval_expr(heap, scopes, expr).out)
True == Ok(VBool(TRUE))

\* C7: once x is made, and after every write through any handle (a
\* function, the object or x itself stored in it), `x === x` and `x == x`
\* are true, through every handle of x.
C7_ListEqualsItself ==
    last.k # "init" =>
        /\ Value(EBin("RefEq", EVar(NameX), EVar(NameX))) = True
        /\ Value(EBin("Eq", EVar(NameX), EVar(NameX))) = True
        /\ \A H \in ListHandles :
              /\ Value(EBin("RefEq", H, H)) = True
              /\ Value(EBin("Eq", H, H)) = True

\* x holds itself, stored through z[0], and a later write succeeded.
C7_ListHoldsItself ==
    /\ last.k = "write"
    /\ res = StmtOk
    /\ hist = 2
    /\ heap[TheX].items[1] = VList(TheX)

\* C10: after a write through one handle, the read of the slot through
\* every handle of the container gives the value written, also through a
\* parameter and the variable of a closure; and the handles stay `===`.
C10_WritesSeenThroughEveryHandle ==
    /\ last.k = "prelude" => res = StmtOk
    /\ last.k # "init" =>
          /\ \A H \in ListHandles, G \in ListHandles :
                Value(EBin("RefEq", H, G)) = True
          /\ \A H \in ObjectHandles, G \in ObjectHandles :
                Value(EBin("RefEq", H, G)) = True
    /\ (last.k = "write" /\ res = StmtOk /\ last.on = "list") =>
          /\ \A H \in ListHandles :
                Value(EIndex(H, EInt(last.at))) = Ok(last.expect)
          /\ last.form = "closure" => get(heap, scopes, NameProbe) = Some(last.expect)
    /\ (last.k = "write" /\ res = StmtOk /\ last.on = "object") =>
          \A H \in ObjectHandles :
             /\ Value(EProp(H, last.at)) = Ok(last.expect)
             /\ Value(EIndex(H, EStr(last.at))) = Ok(last.expect)

\* `k.l[1] += 1;` is read as 3 through x, y, w and z[0].
C10_OpAssignThroughProperty ==
    /\ last.k = "write"
    /\ last.form = "op"
    /\ last.by = EProp(EVar(NameK), NameL)
    /\ res = StmtOk
    /\ last.expect = VInt(3)
    /\ Value(EIndex(EVar(NameY), EInt(1))) = Ok(VInt(3))

-----------------------------------------------------------------------------
(* SpecScope: declare and assign on a stack of scopes, called directly     *)
(* and through the binder by `name := n;` and `name = n;`.  The n-th       *)
(* operation carries the value n and the location (n, 1).                  *)

ScopeNames == {NameA, NameB}

InitScope ==
    /\ heap = <<ScopeCell(EmptyScope)>>
    /\ scopes = <<1>>
    /\ res = Idle
    /\ last = [k |-> "init"]
    /\ hist = [n |-> 0, heap |-> <<>>]

ScopeOpNext == hist.n + 1
ScopeOpLoc == Loc(ScopeOpNext, 1)
ScopeOpValue == VInt(ScopeOpNext)
CanScopeOp == Running /\ hist.n < MaxScopeOps
ScopeOpDone == [n |-> ScopeOpNext, heap |-> heap]

\* The operation made and what it returned.
ScopeOp(k, name, m, r) ==
    [k |-> k, name |-> name, v |-> ScopeOpValue, loc |-> ScopeOpLoc, m |-> m,
     r |-> r]

\* A block is entered: the statements in it run on new_from_push(..).
PushScope ==
    /\ CanScopeOp
    /\ \E new_scopes \in {new_from_push(heap, scopes, EmptyScope)} :
          /\ heap' = new_scopes.heap
          /\ scopes' = new_scopes.scopes
    /\ last' = [k |-> "push"]
    /\ hist' = ScopeOpDone
    /\ UNCHANGED res

\* scopes.declare(name, loc, v, m)
Declare(name, m) ==
    /\ CanScopeOp
    /\ \E r \in {declare(heap, scopes, name, ScopeOpLoc, ScopeOpValue, m)} :
          /\ heap' = r.heap
          /\ last' = ScopeOp("declare", name, m, [ok |-> r.ok, loc |-> r.loc])
    /\ hist' = ScopeOpDone
    /\ UNCHANGED <<scopes, res>>

\* scopes.assign(name, v)
Assign(name) ==
    /\ CanScopeOp
    /\ \E r \in {assign(heap, scopes, name, ScopeOpValue)} :
          /\ heap' = r.heap
          /\ last' = ScopeOp("assign", name, Var, [ok |-> r.ok, err |-> r.err])
    /\ hist' = ScopeOpDone
    /\ UNCHANGED <<scopes, res>>

\* `name := n;`
DeclareStmt(name) ==
    /\ CanScopeOp
    /\ \E r \in {eval_stmt(heap, scopes,
                          SDeclare(At(EVar(name), ScopeOpLoc), EInt(ScopeOpNext)))} :
          /\ heap' = r.heap
          /\ scopes' = r.scopes
          /\ res' = r.out
    /\ last' = ScopeOp("declare_stmt", name, Var, None)
    /\ hist' = ScopeOpDone

\* `name = n;`
AssignStmt(name) ==
    /\ CanScopeOp
    /\ \E r \in {eval_stmt(heap, scopes,
                          SAssign(At(EVar(name), ScopeOpLoc), EInt(ScopeOpNext)))} :
          /\ heap' = r.heap
          /\ scopes' = r.scopes
          /\ res' = r.out
    /\ last' = ScopeOp("assign_stmt", name, Var, None)
    /\ hist' = ScopeOpDone

NextScope ==
    \/ PushScope
    \/ \E name \in ScopeNames, m \in {Const, Var} : Declare(name, m)
    \/ \E name \in ScopeNames : Assign(name)
    \/ \E name \in ScopeNames : DeclareStmt(name)
    \/ \E name \in ScopeNames : AssignStmt(name)

SpecScope == InitScope /\ [][NextScope]_vars

\* The scopes before the last operation: the top one, and the topmost one
\* that holds the name (0 if none does).
TopBefore == hist.heap[scopes[Len(scopes)]].vars
HoldersBefore(name) == {i \in 1..Len(scopes) : name \in DOMAIN hist.heap[scopes[i]].vars}
InnermostBefore(name) ==
    IF HoldersBefore(name) = {} THEN 0
    ELSE CHOOSE i \in HoldersBefore(name) : \A j \in HoldersBefore(name) : j <= i

\* The heap is as before the last operation but for one entry of one scope.
OnlyEntryChanged(cell, name, entry) ==
    /\ Len(heap) = Len(hist.heap)
    /\ \A c \in 1..Len(heap) : c # cell => heap[c] = hist.heap[c]
    /\ DOMAIN heap[cell].vars = DOMAIN hist.heap[cell].vars \cup {name}
    /\ \A n \in DOMAIN hist.heap[cell].vars :
          n # name => heap[cell].vars[n] = hist.heap[cell].vars[n]
    /\ heap[cell].vars[name] = entry

\* The kind of a failure: the last element of its chain.
ErrorKind(out) == out.e[Len(out.e)]

\* C11: declare succeeds iff the name is not in the top scope, bound below
\* or not; on success only the top scope gains the binding and get returns
\* the new value; on failure it gives the location of the definition in the
\* top scope, AlreadyInScope through the binder, and no scope changes.
C11_DeclareInTopScope ==
    /\ last.k = "declare" =>
          /\ last.r.ok <=> last.name \notin DOMAIN TopBefore
          /\ last.r.ok =>
                /\ OnlyEntryChanged(scopes[Len(scopes)], last.name,
                                    ScopeEntry(last.v, last.loc, last.m))
                /\ get(heap, scopes, last.name) = Some(last.v)
          /\ ~last.r.ok =>
                /\ last.r.loc = TopBefore[last.name].loc
                /\ heap = hist.heap
    /\ last.k = "declare_stmt" =>
          /\ res = StmtOk <=> last.name \notin DOMAIN TopBefore
          /\ res = StmtOk =>
                /\ OnlyEntryChanged(scopes[Len(scopes)], last.name,
                                    ScopeEntry(last.v, last.loc, Var))
                /\ get(heap, scopes, last.name) = Some(last.v)
          /\ res # StmtOk =>
                /\ res.k = "err"
                /\ ErrorKind(res) = "AlreadyInScope"
                /\ res.name = last.name
                /\ res.prev = TopBefore[last.name].loc
                /\ heap = hist.heap

\* A declaration shadowed a binding of a lower scope, which kept its value.
C11_ShadowedLowerBinding ==
    /\ last.k = "declare"
    /\ last.r.ok
    /\ Len(scopes) = 2
    /\ last.name \in DOMAIN ScopeAt(heap, scopes, 1)
    /\ ScopeAt(heap, scopes, 1)[last.name].v # last.v
    /\ get(heap, scopes, last.name) = Some(last.v)

\* A redeclaration in the top scope failed through the binder, with the
\* location of the first definition.
C11_RedeclarationRejected ==
    /\ last.k = "declare_stmt"
    /\ res.k = "err"
    /\ res.prev = Loc(1, 1)
    /\ hist.n = 2

\* assign on the scopes: the innermost binding takes the value and nothing
\* else changes; Undefined when no scope holds the name, Const when the
\* innermost binding is const, and then no scope changes.
AssignInnermost ==
    last.k = "assign" =>
        LET i == InnermostBefore(last.name)
        IN /\ last.r.ok <=> (i # 0 /\ hist.heap[scopes[i]].vars[last.name].m = Var)
           /\ last.r.ok =>
                 OnlyEntryChanged(scopes[i], last.name,
                                  [hist.heap[scopes[i]].vars[last.name]
                                      EXCEPT !.v = last.v])
           /\ ~last.r.ok =>
                 /\ heap = hist.heap
                 /\ last.r.err = (IF i = 0 THEN "Undefined" ELSE "Const")

\* C12: assign replaces the value of the innermost binding and changes no
\* other; it fails Undefined when no scope binds the name and Const when
\* the innermost binding is const, every scope unchanged; and the binder
\* reports the two failures as distinct error kinds.
C12_AssignInnermostAndDistinctKinds ==
    /\ AssignInnermost
    /\ last.k = "assign_stmt" =>
          LET i == InnermostBefore(last.name)
          IN /\ res = StmtOk <=> (i # 0 /\ hist.heap[scopes[i]].vars[last.name].m = Var)
             /\ res = StmtOk =>
                   OnlyEntryChanged(scopes[i], last.name,
                                    [hist.heap[scopes[i]].vars[last.name]
                                        EXCEPT !.v = last.v])
             /\ res # StmtOk =>
                   /\ res.k = "err"
                   /\ heap = hist.heap
                   /\ ErrorKind(res) = "Undefined" <=> i = 0

\* `name = n;` on a const binding above a mutable one of the same name
\* failed and changed nothing.
C12_ConstNotFallenThrough ==
    /\ last.k = "assign_stmt"
    /\ res.k = "err"
    /\ Len(scopes) = 2
    /\ last.name \in DOMAIN ScopeAt(heap, scopes, 1)
    /\ last.name \in DOMAIN ScopeAt(heap, scopes, 2)
    /\ ScopeAt(heap, scopes, 1)[last.name].m = Var
    /\ ScopeAt(heap, scopes, 2)[last.name].m = Const
    /\ heap = hist.heap

-----------------------------------------------------------------------------
(* SpecOrder: expressions over the variables f (a function), xs (a list),  *)
(* a and b (integers), each of them bound or not.  An expression whose     *)
(* variables are not all bound fails with Undefined{name} of the first     *)
(* unbound variable it evaluates.                                          *)

OrderNames == {NameF, NameXs, NameA, NameB}
OrderValue(name) ==
    CASE name = NameF -> VFunc(2)
      [] name = NameXs -> VList(3)
      [] name = NameA -> VInt(0)
      [] name = NameB -> VInt(1)

\* `fn f(p, q) {}; xs := [1, 2]; a := 0; b := 1;`, some of them left out.
InitOrder ==
    /\ \E defined \in SUBSET OrderNames :
          heap = <<ScopeCell([n \in defined |-> ScopeEntry(OrderValue(n), NoLoc, Var)]),
                   Func(Some(NameF), <<EVar(NameP), EVar(NameQ)>>, FALSE, <<>>, <<1>>),
                   ListCell(<<VInt(1), VInt(2)>>)>>
    /\ scopes = <<1>>
    /\ res = Idle
    /\ last = [k |-> "init"]
    /\ hist = <<>>

\* An expression and its variables in the order of the source text.
Ordered(form, subs) == [form |-> form, subs |-> subs]
OrderedExprs ==
    {Ordered("call", <<NameF, NameA, NameB>>), Ordered("call", <<NameF, NameB, NameA>>),
     Ordered("range", <<NameXs, NameA, NameB>>), Ordered("range", <<NameXs, NameB, NameA>>),
     Ordered("binop", <<NameA, NameB>>), Ordered("binop", <<NameB, NameA>>),
     Ordered("index", <<NameXs, NameA>>), Ordered("index", <<NameXs, NameB>>)}

\* `f(a, b)`, `xs[a..b]`, `a + b` and `xs[a]`
OrderedExpr(o) ==
    CASE o.form = "call" ->
            ECall(EVar(o.subs[1]), <<Item(EVar(o.subs[2])), Item(EVar(o.subs[3]))>>)
      [] o.form = "range" ->
            ERangeIndex(EVar(o.subs[1]), Some(EVar(o.subs[2])), Some(EVar(o.subs[3])))
      [] o.form = "binop" -> EBin("Sum", EVar(o.subs[1]), EVar(o.subs[2]))
      [] o.form = "index" -> EIndex(EVar(o.subs[1]), EVar(o.subs[2]))

EvalOrdered(o) ==
    /\ last.k = "init"
    /\ \E r \in {eval_expr(heap, scopes, OrderedExpr(o))} :
          /\ res' = r.out
          /\ heap' = r.heap
    /\ last' = [k |-> "order", form |-> o.form, subs |-> o.subs]
    /\ UNCHANGED <<scopes, hist>>

NextOrder == \E o \in OrderedExprs : EvalOrdered(o)

SpecOrder == InitOrder /\ [][NextOrder]_vars

\* The first of a sequence of variables that is not bound.
Unbound(names) == {i \in 1..Len(names) : names[i] \notin DOMAIN GlobalScope}
FirstUnbound(names) ==
    names[CHOOSE i \in Unbound(names) : \A j \in Unbound(names) : i <= j]
FailsAt(names) ==
    Unbound(names) # {} =>
        /\ res.k = "err"
        /\ ErrorKind(res) = "Undefined"
        /\ res.name = FirstUnbound(names)

\* C13: the sub-expressions of an expression are evaluated left to right in
\* the order of the source: `f(a, b)` f then a then b, `e[s..t]` e then s
\* then t, `l op r` and `e[k]` the left one first; the error raised is that
\* of the first sub-expression, in this order, that fails.
C13_LeftToRightInSourceOrder ==
    last.k = "order" => FailsAt(last.subs)

\* The order in which eval_call and the RangeIndex arm evaluate: the
\* arguments before the called expression, the bounds before the sliced
\* expression.
AsEvaluated(form, subs) ==
    IF form \in {"call", "range"} THEN <<subs[2], subs[3], subs[1]>> ELSE subs
ArgumentsAndBoundsFirst ==
    last.k = "order" => FailsAt(AsEvaluated(last.form, last.subs))

\* `f(a, b)` with neither f nor a bound failed with Undefined{a}.
ArgumentFailedBeforeCallee ==
    /\ last.k = "order"
    /\ last.form = "call"
    /\ last.subs = <<NameF, NameA, NameB>>
    /\ DOMAIN GlobalScope = {NameB}
    /\ res.name = NameA

-----------------------------------------------------------------------------
(* SpecEscape: programs `fn f() { body }` followed by a call of f, alone   *)
(* or in a loop of the caller, and programs with an escape outside of      *)
(* every function, run by eval_prog on the globals r, n and m.             *)

NameN == <<110>>
NameM == <<109>>

InitEscape ==
    /\ heap = <<ScopeCell([name \in {NameR, NameN, NameM} |->
                              ScopeEntry(IF name = NameR THEN VNull ELSE VInt(0),
                                         NoLoc, Var)])>>
    /\ scopes = <<1>>
    /\ res = Idle
    /\ last = [k |-> "init"]
    /\ hist = [n |-> 0, r |-> VNull]

\* A body, and how it ends: with no escape, or with the escape named and
\* the value returned.
EscapeLoc == Loc(2, 3)
Return(n) == SReturn(EscapeLoc, EInt(n))
Body(stmts, ends, value) == [stmts |-> stmts, ends |-> ends, value |-> value]
IfTrue(stmts) == SIf(<<Branch(EBool(TRUE), stmts)>>, None)
IfElse(stmts) == SIf(<<Branch(EBool(FALSE), <<>>)>>, Some(stmts))
Forever(stmts) == SWhile(EBool(TRUE), stmts)
ForOne(stmts) == SFor(EVar(Underscore), ListOf(<<EInt(1)>>), stmts)
FuncBodies ==
    {Body(<<>>, "none", VNull),
     Body(<<Return(7)>>, "return", VInt(7)),
     Body(<<SBreak(EscapeLoc)>>, "break", VNull),
     Body(<<SContinue(EscapeLoc)>>, "continue", VNull),
     Body(<<IfTrue(<<Return(7)>>)>>, "return", VInt(7)),
     Body(<<IfElse(<<SBreak(EscapeLoc)>>)>>, "break", VNull),
     Body(<<IfTrue(<<SContinue(EscapeLoc)>>), Return(8)>>, "continue", VNull),
     Body(<<Forever(<<Return(7)>>)>>, "return", VInt(7)),
     Body(<<Forever(<<SBreak(EscapeLoc)>>), Return(8)>>, "return", VInt(8)),
     Body(<<Forever(<<SBreak(EscapeLoc)>>)>>, "none", VNull),
     Body(<<ForOne(<<SContinue(EscapeLoc)>>)>>, "none", VNull),
     Body(<<ForOne(<<IfTrue(<<Return(7)>>)>>)>>, "return", VInt(7)),
     Body(<<Return(7), Return(8)>>, "return", VInt(7))}

\* `r = f();` and `n = 0; m = 0; while n < 2 { n += 1; r = f(); m += 1; }`
CallF == SAssign(EVar(NameR), ECall(EVar(NameF), <<>>))
Callers == {"plain", "loop"}
Caller(ctx) ==
    IF ctx = "plain" THEN <<CallF>>
    ELSE <<SAssign(EVar(NameN), EInt(0)), SAssign(EVar(NameM), EInt(0)),
           SWhile(EBin("Lt", EVar(NameN), EInt(2)),
                  <<SOpAssign(EVar(NameN), "Sum", EInt(1)), CallF,
                    SOpAssign(EVar(NameM), "Sum", EInt(1))>>)>>

\* Programs with an escape that is in no function: the error expected of
\* eval_prog and its location, or "none".
Top(stmts, kind, loc) == [stmts |-> stmts, kind |-> kind, loc |-> loc]
TopPrograms ==
    {Top(<<SBreak(Loc(1, 1))>>, "BreakOutsideLoop", Loc(1, 1)),
     Top(<<SContinue(Loc(1, 2))>>, "ContinueOutsideLoop", Loc(1, 2)),
     Top(<<SReturn(Loc(1, 3), EInt(7))>>, "ReturnOutsideFunction", Loc(1, 3)),
     Top(<<SAssign(EVar(NameN), EInt(5)), IfTrue(<<SBreak(Loc(2, 4))>>),
           SAssign(EVar(NameN), EInt(6))>>, "BreakOutsideLoop", Loc(2, 4)),
     Top(<<IfElse(<<SContinue(Loc(4, 4))>>)>>, "ContinueOutsideLoop", Loc(4, 4)),
     Top(<<Forever(<<SReturn(Loc(3, 3), EInt(7))>>)>>, "ReturnOutsideFunction",
         Loc(3, 3)),
     Top(<<Forever(<<SBreak(Loc(3, 3))>>)>>, "none", NoLoc),
     Top(<<ForOne(<<SContinue(Loc(3, 3))>>)>>, "none", NoLoc)}

CanRun == Running /\ hist.n < MaxPrograms
ProgramRun == [n |-> hist.n + 1, r |-> GlobalScope[NameR].v]

\* `fn f() { body }` and the caller.
RunCall(ctx, body) ==
    /\ CanRun
    /\ \E v \in {eval_prog(heap, scopes, <<>>,
                           <<SFunc(NameF, <<>>, FALSE, body.stmts)>> \o Caller(ctx))} :
          /\ res' = v.out
          /\ heap' = v.heap
          /\ scopes' = v.scopes
    /\ last' = [k |-> "call", ctx |-> ctx, ends |-> body.ends, value |-> body.value]
    /\ hist' = ProgramRun

RunTop(top) ==
    /\ CanRun
    /\ \E v \in {eval_prog(heap, scopes, <<>>, top.stmts)} :
          /\ res' = v.out
          /\ heap' = v.heap
          /\ scopes' = v.scopes
    /\ last' = [k |-> "top", kind |-> top.kind, loc |-> top.loc]
    /\ hist' = ProgramRun

NextEscape ==
    \/ \E ctx \in Callers, body \in FuncBodies : RunCall(ctx, body)
    \/ \E top \in TopPrograms : RunTop(top)

SpecEscape == InitEscape /\ [][NextEscape]_vars

Global(name) == GlobalScope[name].v
EscapeError(ends) ==
    IF ends = "break" THEN "BreakOutsideLoop" ELSE "ContinueOutsideLoop"

\* C14: a call gives the value returned when the body ends with Return and
\* null when it ends with no escape; a break or continue that reaches the
\* end of the body makes the call fail with BreakOutsideLoop or
\* ContinueOutsideLoop, and a loop of the caller around the call is then
\* neither left nor started again by it; an escape that reaches the
\* program fails with the error of its kind at its location.
C14_EscapesEndAtTheCall ==
    /\ (last.k = "call" /\ last.ends \in {"none", "return"}) =>
          /\ res = StmtOk
          /\ Global(NameR) = last.value
          /\ last.ctx = "loop" => (Global(NameN) = VInt(2) /\ Global(NameM) = VInt(2))
    /\ (last.k = "call" /\ last.ends \in {"break", "continue"}) =>
          /\ res.k = "err"
          /\ ErrorKind(res) = EscapeError(last.ends)
          /\ Global(NameR) = hist.r
          /\ last.ctx = "loop" => (Global(NameN) = VInt(1) /\ Global(NameM) = VInt(0))
    /\ last.k = "top" =>
          IF last.kind = "none" THEN res = StmtOk
          ELSE res = AtLocAt(last.kind, last.loc)

\* A break at the end of a body, called in a loop of the caller: the call
\* failed in the first iteration, before `m += 1`.
C14_BreakFailedInCallersLoop ==
    /\ last.k = "call"
    /\ last.ctx = "loop"
    /\ last.ends = "break"
    /\ ErrorKind(res) = "BreakOutsideLoop"
    /\ Global(NameN) = VInt(1)
    /\ Global(NameM) = VInt(0)

-----------------------------------------------------------------------------
(* SpecClosure: `fn f(p) { body }` is declared once, scopes are pushed and *)
(* x is declared before and after it, and `f(9)` is called.                *)

NameD == <<100>>
NameG == <<103>>
NameH == <<104>>
NameU == <<117>>

InitClosure ==
    /\ heap = <<ScopeCell(EmptyScope)>>
    /\ scopes = <<1>>
    /\ res = Idle
    /\ last = [k |-> "init"]
    /\ hist = [n |-> 0, closure |-> <<>>, body |-> "none", heap |-> <<>>]

\* `return x;`, `x = p;`, `d := p; return d;` and `d := p; u;`
ClosureBodies == {"read", "write", "declare", "fail"}
ClosureBody(body) ==
    CASE body = "read" -> <<SReturn(NoLoc, EVar(NameX))>>
      [] body = "write" -> <<SAssign(EVar(NameX), EVar(NameP))>>
      [] body = "declare" ->
            <<SDeclare(EVar(NameD), EVar(NameP)), SReturn(NoLoc, EVar(NameD))>>
      [] body = "fail" -> <<SDeclare(EVar(NameD), EVar(NameP)), SExpr(EVar(NameU))>>

CanStep == Running /\ hist.n < MaxClosureSteps
Stepped == [hist EXCEPT !.n = @ + 1, !.heap = heap]

\* `fn f(p) { body }`
DefineF(body) ==
    /\ CanStep
    /\ hist.closure = <<>>
    /\ \E r \in {eval_stmt(heap, scopes,
                          SFunc(NameF, <<EVar(NameP)>>, FALSE, ClosureBody(body)))} :
          /\ res' = r.out
          /\ heap' = r.heap
          /\ scopes' = r.scopes
    /\ last' = [k |-> "define"]
    /\ hist' = [Stepped EXCEPT !.closure = scopes, !.body = body]

\* A block is entered.
EnterBlock ==
    /\ CanStep
    /\ \E new_scopes \in {new_from_push(heap, scopes, EmptyScope)} :
          /\ heap' = new_scopes.heap
          /\ scopes' = new_scopes.scopes
    /\ last' = [k |-> "push"]
    /\ hist' = Stepped
    /\ UNCHANGED res

\* `x := n;` for the n-th step.
DeclareX ==
    /\ CanStep
    /\ \E r \in {eval_stmt(heap, scopes, SDeclare(EVar(NameX), EInt(hist.n + 1)))} :
          /\ res' = r.out
          /\ heap' = r.heap
          /\ scopes' = r.scopes
    /\ last' = [k |-> "declare"]
    /\ hist' = Stepped

\* `f(9)`
CallF9 ==
    /\ CanStep
    /\ hist.closure # <<>>
    /\ \E r \in {eval_expr(heap, scopes, ECall(EVar(NameF), <<Item(EInt(9))>>))} :
          /\ res' = r.out
          /\ heap' = r.heap
    /\ last' = [k |-> "call"]
    /\ hist' = Stepped
    /\ UNCHANGED scopes

NextClosure ==
    \/ \E body \in ClosureBodies : DefineF(body)
    \/ EnterBlock
    \/ DeclareX
    \/ CallF9

SpecClosure == InitClosure /\ [][NextClosure]_vars

\* The frames of a stack, the frames captured by f, and the names a stack
\* shows, in a heap.
Frames(scs) == {scs[i] : i \in 1..Len(scs)}
Shown(h, scs, name) == \E c \in Frames(scs) : name \in DOMAIN h[c].vars
Captured(name) == Shown(hist.heap, hist.closure, name)
UndefinedName(out, name) ==
    /\ out.k = "err"
    /\ ErrorKind(out) = "Undefined"
    /\ out.name = name

\* The call made one new frame, with the parameter in it, and no frame
\* that was there before has a name more.
OneFreshFrame ==
    /\ Len(heap) = Len(hist.heap) + 1
    /\ heap[Len(heap)].k = "scope"
    /\ NameP \in DOMAIN heap[Len(heap)].vars
    /\ \A c \in 1..Len(hist.heap) :
          hist.heap[c].k = "scope" =>
              DOMAIN heap[c].vars = DOMAIN hist.heap[c].vars

\* C15: the body of f runs on the frames captured at the definition and
\* one new frame with the parameter: x is read and written in the captured
\* frames, also when declared there after the definition; x bound only in
\* frames the caller pushed after the definition is Undefined in the body;
\* and the parameter and the name the body declares are not visible to the
\* caller after the call, returned or failed.
C15_LexicalScope ==
    last.k = "call" =>
        /\ OneFreshFrame
        /\ \A name \in {NameP, NameD} :
              /\ ~Shown(heap, scopes, name)
              /\ ~Shown(heap, hist.closure, name)
        /\ hist.body = "read" =>
              IF Captured(NameX)
              THEN res = Ok(get(hist.heap, hist.closure, NameX).v)
              ELSE UndefinedName(res, NameX)
        /\ hist.body = "write" =>
              IF Captured(NameX)
              THEN /\ res = Ok(VNull)
                   /\ get(heap, hist.closure, NameX) = Some(VInt(9))
                   /\ \A c \in Frames(scopes) \ Frames(hist.closure) :
                         heap[c] = hist.heap[c]
              ELSE /\ UndefinedName(res, NameX)
                   /\ \A c \in 1..Len(hist.heap) : heap[c] = hist.heap[c]
        /\ hist.body = "declare" => res = Ok(VInt(9))
        /\ hist.body = "fail" => UndefinedName(res, NameU)

\* x is bound for the caller, in a scope pushed after the definition, and
\* Undefined in the body.
C15_CallersNameUndefinedInBody ==
    /\ last.k = "call"
    /\ hist.body = "read"
    /\ get(heap, scopes, NameX).some
    /\ UndefinedName(res, NameX)

(***************************************************************************)
(* SpecFrames: a program started as main.rs starts it, from a stack of no  *)
(* scopes, whose statements each open a scope, declare names in it and end *)
(* in one of the five ways, at depth one or in blocks entered before.      *)
(***************************************************************************)

InitFrames ==
    /\ heap = <<>>
    /\ scopes = <<>>
    /\ res = Idle
    /\ last = [k |-> "init"]
    /\ hist = [n |-> 0, scopes |-> <<>>, heap |-> <<>>]

\* `d := 1;` and the end of the opened scope.
Endings == {"normal", "break", "continue", "return", "error"}
Inner(ends) ==
    <<SDeclare(EVar(NameD), EInt(1))>> \o
    (CASE ends = "normal" -> <<>>
       [] ends = "break" -> <<SBreak(EscapeLoc)>>
       [] ends = "continue" -> <<SContinue(EscapeLoc)>>
       [] ends = "return" -> <<SReturn(EscapeLoc, EInt(7))>>
       [] ends = "error" -> <<SExpr(EVar(NameU))>>)

\* The statements that open a scope: `{ .. }`, `if true { .. }`,
\* `if false {} else { .. }`, `n = 0; while n < 2 { n += 1; .. }`,
\* `for [k, v] in [1] { .. }` and `(fn(p) { .. })(9);`
Openers == {"block", "if", "else", "while", "for", "call"}
Opener(opener, ends) ==
    CASE opener = "block" -> <<SBlock(Inner(ends))>>
      [] opener = "if" -> <<IfTrue(Inner(ends))>>
      [] opener = "else" -> <<IfElse(Inner(ends))>>
      [] opener = "while" ->
            <<SAssign(EVar(NameN), EInt(0)),
              SWhile(EBin("Lt", EVar(NameN), EInt(2)),
                     <<SAssign(EVar(NameN), EBin("Sum", EVar(NameN), EInt(1)))>>
                     \o Inner(ends))>>
      [] opener = "for" ->
            <<SFor(ListOf(<<EVar(NameK), EVar(NameV)>>), ListOf(<<EInt(1)>>),
                   Inner(ends))>>
      [] opener = "call" ->
            <<SExpr(ECall(EFunc(<<EVar(NameP)>>, FALSE, Inner(ends)),
                          <<Item(EInt(9))>>))>>
InnerNames == {NameD, NameK, NameV, NameP}

CanOpen == last.k # "init" /\ Running /\ hist.n < MaxFrameSteps
FrameStep == [n |-> hist.n + 1, scopes |-> scopes, heap |-> heap]

\* eval_prog's entry into eval_stmts: the scope of the globals is pushed on
\* the stack main made, and `print` and n are bound in it.
StartProg ==
    /\ last.k = "init"
    /\ \E new_scopes \in {new_from_push(heap, scopes, EmptyScope)} :
          \E b \in {BindAll(new_scopes.heap, new_scopes.scopes,
                            <<Binding(EVar(NamePrint), VBuiltin(NamePrint)),
                              Binding(EVar(NameN), VInt(0))>>, 1)} :
              /\ res' = b.out
              /\ heap' = b.heap
              /\ scopes' = new_scopes.scopes
    /\ last' = [k |-> "start"]
    /\ hist' = FrameStep

\* The statements of a block entered: eval_stmts's push.
EnterFrame ==
    /\ CanOpen
    /\ \E new_scopes \in {new_from_push(heap, scopes, EmptyScope)} :
          /\ heap' = new_scopes.heap
          /\ scopes' = new_scopes.scopes
    /\ last' = [k |-> "push"]
    /\ hist' = FrameStep
    /\ UNCHANGED res

\* A statement that opens a scope is evaluated on the running stack.
Open(opener, ends) ==
    /\ CanOpen
    /\ \E r \in {eval_stmts_with_scope_stack(heap, scopes, Opener(opener, ends), 1)} :
          /\ res' = r.out
          /\ heap' = r.heap
          /\ scopes' = r.scopes
    /\ last' = [k |-> "open", opener |-> opener, ends |-> ends]
    /\ hist' = FrameStep

NextFrames ==
    \/ StartProg
    \/ EnterFrame
    \/ \E opener \in Openers, ends \in Endings : Open(opener, ends)

SpecFrames == InitFrames /\ [][NextFrames]_vars

\* A scope was opened: a frame made by the statement holds d.
OpenedFrame ==
    \E c \in (Len(hist.heap) + 1)..Len(heap) :
        /\ heap[c].k = "scope"
        /\ NameD \in DOMAIN heap[c].vars

\* C16: when a statement that opens a scope has ended, normally, with an
\* escape or with an error, the enclosing stack has the frames it had
\* before, in the same order, each with the names it had before, and no
\* name declared in the opened scope is visible; and user code never runs
\* on a stack of no scopes.
C16_FramesRestored ==
    /\ last.k # "init" => scopes # <<>> /\ res # Panic
    /\ last.k = "open" =>
          /\ OpenedFrame
          /\ scopes = hist.scopes
          /\ \A c \in Frames(scopes) : DOMAIN heap[c].vars = DOMAIN hist.heap[c].vars
          /\ \A name \in InnerNames :
                /\ ~Shown(heap, scopes, name)
                /\ ~get(heap, scopes, name).some

\* An error in the body of a for loop, two blocks deep.
C16_ErrorInLoopBodyRestored ==
    /\ last.k = "open"
    /\ last.opener = "for"
    /\ last.ends = "error"
    /\ UndefinedName(res, NameU)
    /\ Len(scopes) = 3
    /\ OpenedFrame
    /\ scopes = hist.scopes

(***************************************************************************)
(* SpecThis: `o := {"f": fn() { return this; }, "n": n}; g := o.f;         *)
(* fn h() { return o.f; }` and then expressions that produce the function  *)
(* or a number in one of seven ways, evaluated alone or called.            *)
(***************************************************************************)

InitThis ==
    /\ heap = <<ScopeCell(EmptyScope)>>
    /\ scopes = <<1>>
    /\ res = Idle
    /\ last = [k |-> "init"]
    /\ hist = 0

ReturnThis == EFunc(<<>>, FALSE, <<SReturn(NoLoc, EVar(NameThis))>>)
PropF == EProp(EVar(NameO), NameF)

\* How a value is produced: `o.f`, `o["f"]`, `g`, `[o.f][0]`,
\* `fn() { return this; }`, `o.n + 1` and `h()`.
Produced == {"prop", "index", "var", "list", "literal", "operator", "call"}
Producer(kind) ==
    CASE kind = "prop" -> PropF
      [] kind = "index" -> EIndex(EVar(NameO), EStr(NameF))
      [] kind = "var" -> EVar(NameG)
      [] kind = "list" -> EIndex(ListOf(<<PropF>>), EInt(0))
      [] kind = "literal" -> ReturnThis
      [] kind = "operator" -> EBin("Sum", EProp(EVar(NameO), NameN), EInt(1))
      [] kind = "call" -> ECall(EVar(NameH), <<>>)
DirectReads == {"prop", "index"}

CanEvaluate == last.k # "init" /\ Running /\ hist < MaxThisSteps

DeclareThis(n) ==
    /\ last.k = "init"
    /\ \E r \in {eval_stmts_with_scope_stack(heap, scopes,
                    <<SDeclare(EVar(NameO),
                               EObject(<<Pair(EStr(NameF), ReturnThis),
                                         Pair(EStr(NameN), EInt(n))>>)),
                      SDeclare(EVar(NameG), PropF),
                      SFunc(NameH, <<>>, FALSE, <<SReturn(NoLoc, PropF)>>)>>, 1)} :
          /\ res' = r.out
          /\ heap' = r.heap
          /\ scopes' = r.scopes
    /\ last' = [k |-> "declare"]
    /\ hist' = hist + 1

\* The expression of the kind is evaluated.
Produce(kind) ==
    /\ CanEvaluate
    /\ \E r \in {eval_expr(heap, scopes, Producer(kind))} :
          /\ res' = r.out
          /\ heap' = r.heap
    /\ last' = [k |-> "produce", kind |-> kind]
    /\ hist' = hist + 1
    /\ UNCHANGED scopes

\* The function produced is called with no arguments.
CallProduced(kind) ==
    /\ CanEvaluate
    /\ kind # "operator"
    /\ \E r \in {eval_expr(heap, scopes, ECall(Producer(kind), <<>>))} :
          /\ res' = r.out
          /\ heap' = r.heap
    /\ last' = [k |-> "called", kind |-> kind]
    /\ hist' = hist + 1
    /\ UNCHANGED scopes

NextThis ==
    \/ \E n \in 1..2 : DeclareThis(n)
    \/ \E kind \in Produced : Produce(kind)
    \/ \E kind \in Produced : CallProduced(kind)

SpecThis == InitThis /\ [][NextThis]_vars

TheObjectO == ValueOf(get(heap, scopes, NameO).v)

\* C17: a value has a source only when a property read or an index read
\* produced it, and then the source is the object read; so the function
\* called through a property or an index of o gets o as `this`, and called
\* through a variable, a list element, a literal or a call result gets no
\* `this`.
C17_SourceOnlyFromDirectRead ==
    /\ last.k = "produce" =>
          /\ res.k = "ok"
          /\ HasSource(res.v) <=> last.kind \in DirectReads
          /\ HasSource(res.v) => res.v.source = TheObjectO
    /\ last.k = "called" =>
          IF last.kind \in DirectReads THEN res = Ok(TheObjectO)
          ELSE UndefinedName(res, NameThis)

\* What the code does: the source set by a property or index read stays on
\* the value when it is stored in a variable or a list or returned from a
\* call, so the function gets o as `this` however it was reached from o.f;
\* only a function literal called in place gets none.  A source is always
\* the object the value was read from.
SourceKept == {"var", "list", "call"}
SourceFollowsTheValue ==
    /\ last.k = "produce" =>
          /\ res.k = "ok"
          /\ HasSource(res.v) <=> last.kind \in DirectReads \cup SourceKept
          /\ HasSource(res.v) =>
                /\ res.v.source = TheObjectO
                /\ ValueOf(res.v) = ValueOf(GetKey(heap[TheObjectO.h].props, NameF))
    /\ last.k = "called" =>
          IF last.kind \in DirectReads \cup SourceKept THEN res = Ok(TheObjectO)
          ELSE UndefinedName(res, NameThis)

\* `g := o.f; g()` returned o.
ThisBoundThroughVariable ==
    /\ last.k = "called"
    /\ last.kind = "var"
    /\ res = Ok(TheObjectO)

(***************************************************************************)
(* SpecRange: `xs := [10, .., 10 + n - 1];` and then `xs[s..e] = rhs;`     *)
(* with each bound given or left out and rhs a list, a string or xs.       *)
(***************************************************************************)

InitRange ==
    /\ heap = <<ScopeCell(EmptyScope)>>
    /\ scopes = <<1>>
    /\ res = Idle
    /\ last = [k |-> "init"]
    /\ hist = [n |-> 0, items |-> <<>>]

Ints(from, n) == [i \in 1..n |-> VInt(from + i - 1)]
Letters(n) == [i \in 1..n |-> 96 + i]
IntsExpr(from, n) == ListOf([i \in 1..n |-> EInt(from + i - 1)])
RangeBounds == {None} \cup {Some(i) : i \in 0..(MaxRangeLen + 1)}
BoundExpr(b) == IF b.some THEN Some(EInt(b.v)) ELSE None

\* The right-hand sides: the expression and the elements it stands for.
RangeRhs(kind, m) ==
    CASE kind = "list" -> [expr |-> IntsExpr(20, m), elems |-> Ints(20, m)]
      [] kind = "str" -> [expr |-> EStr(Letters(m)),
                          elems |-> [i \in 1..m |-> VStr(<<96 + i>>)]]
      [] kind = "self" -> [expr |-> EVar(NameXs),
                           elems |-> heap[get(heap, scopes, NameXs).v.h].items]
TheXs == heap[get(heap, scopes, NameXs).v.h].items

DeclareXs(n) ==
    /\ last.k = "init"
    /\ \E r \in {eval_stmt(heap, scopes, SDeclare(EVar(NameXs), IntsExpr(10, n)))} :
          /\ res' = r.out
          /\ heap' = r.heap
          /\ scopes' = r.scopes
    /\ last' = [k |-> "declare"]
    /\ hist' = [n |-> 0, items |-> Ints(10, n)]

\* `xs[s..e] = rhs;`
AssignRange(s, e, kind, m) ==
    /\ last.k # "init"
    /\ hist.n < MaxRangeWrites
    /\ \E rhs \in {RangeRhs(kind, m)} :
          /\ \E r \in {eval_stmt(heap, scopes,
                                 SAssign(ERangeIndex(EVar(NameXs), BoundExpr(s),
                                                     BoundExpr(e)), rhs.expr))} :
                /\ res' = r.out
                /\ heap' = r.heap
                /\ scopes' = r.scopes
          /\ last' = [k |-> "range", s |-> s, e |-> e, elems |-> rhs.elems]
    /\ hist' = [n |-> hist.n + 1, items |-> TheXs]

NextRange ==
    \/ \E n \in 0..MaxRangeLen : DeclareXs(n)
    \/ \E s \in RangeBounds, e \in RangeBounds, kind \in {"list", "str"},
          m \in 0..MaxRangeLen : AssignRange(s, e, kind, m)
    \/ \E s \in RangeBounds, e \in RangeBounds : AssignRange(s, e, "self", 0)

SpecRange == InitRange /\ [][NextRange]_vars

\* The four checks in order: the kind of the first that fails.
RangeCheck(s, e, n, m) ==
    CASE s > n -> "RangeStartOutOfListBounds"
      [] s <= n /\ s >= e -> "RangeStartNotBeforeEnd"
      [] s <= n /\ s < e /\ e > n -> "RangeEndOutOfListBounds"
      [] s <= n /\ s < e /\ e <= n /\ e - s # m -> "RangeIndexItemMismatch"
      [] OTHER -> "none"

RangeWritten(before, s, e, elems) ==
    [i \in 1..Len(before) |-> IF s < i /\ i <= e THEN elems[i - s] ELSE before[i]]

RangeAssigned(s, e, before, elems) ==
    With([check \in {RangeCheck(s, e, Len(before), Len(elems))} |->
        IF check = "none"
        THEN /\ res = StmtOk
             /\ TheXs = RangeWritten(before, s, e, elems)
        ELSE /\ res.k = "err"
             /\ ErrorKind(res) = check
             /\ TheXs = before])

\* C18: for `xs[s..e] = rhs`, s defaulting to 0 and e to the length of
\* rhs, the checks s <= n, s < e, e <= n, e - s = m are made in this order
\* and the first that fails gives the error kind; when all pass, slots
\* s..e-1 hold the elements of rhs (one-byte strings for a string) and all
\* else is as before; on a failure xs is as before.
C18_RangeAssignChecksInOrder ==
    last.k = "range" =>
        RangeAssigned(IF last.s.some THEN last.s.v ELSE 0,
                      IF last.e.some THEN last.e.v ELSE Len(last.elems),
                      hist.items, last.elems)

\* `xs[1..] = "ab"` on a list of three: the end is 2, the range has one
\* slot and the two bytes do not fit.
C18_EndDefaultsToRhsLength ==
    /\ last.k = "range"
    /\ last.s = Some(1)
    /\ last.e = None
    /\ last.elems = <<VStr(<<97>>), VStr(<<98>>)>>
    /\ Len(hist.items) = 3
    /\ res.k = "err"
    /\ ErrorKind(res) = "RangeIndexItemMismatch"
    /\ TheXs = hist.items

\* `xs[1..3] = "ab"` on a list of three wrote the two bytes.
C18_StringWritten ==
    /\ last.k = "range"
    /\ last.s = Some(1)
    /\ last.e = Some(3)
    /\ res = StmtOk
    /\ TheXs = <<VInt(10), VStr(<<97>>), VStr(<<98>>)>>

(***************************************************************************)
(* SpecList: `ys := [..]; a := null; b := null; c := null;` and then a     *)
(* list pattern of 0..MaxPattern names, with collect or without, bound to  *)
(* ys by an assignment, or by a declaration of the names d, e, f.          *)
(***************************************************************************)

InitList ==
    /\ heap = <<ScopeCell(EmptyScope)>>
    /\ scopes = <<1>>
    /\ res = Idle
    /\ last = [k |-> "init"]
    /\ hist = [n |-> 0, items |-> <<>>]

NameYs == <<121, 115>>
NameE == <<101>>
PatternNames(bind_type) ==
    IF bind_type = Declaration THEN <<NameD, NameE, NameF>>
    ELSE <<NameA, NameB, NameC>>
ListPattern(bind_type, p, collect) ==
    EList([i \in 1..p |-> Item(EVar(PatternNames(bind_type)[i]))], collect)

\* The outcomes of a step that a usize overflow ended, one for each build:
\* the panic, and the error that the wrapped value leads to.
Builds(out, wrapped) == IF out = UsizeOverflow THEN {Panic, wrapped} ELSE {out}

DeclareYs(n) ==
    /\ last.k = "init"
    /\ \E r \in {eval_stmts_with_scope_stack(heap, scopes,
                    <<SDeclare(EVar(NameYs), IntsExpr(10, n)),
                      SDeclare(EVar(NameA), ENull),
                      SDeclare(EVar(NameB), ENull),
                      SDeclare(EVar(NameC), ENull)>>, 1)} :
          /\ res' = r.out
          /\ heap' = r.heap
          /\ scopes' = r.scopes
    /\ last' = [k |-> "declare"]
    /\ hist' = [n |-> 0, items |-> Ints(10, n)]

\* `[a, b, ..c] = ys;` or `[d, e, ..f] := ys;`
Destructure(bind_type, p, collect) ==
    /\ last.k # "init"
    /\ res.k # "panic"
    /\ hist.n < MaxDestructures
    /\ bind_type = Declaration => ~get(heap, scopes, NameD).some
    /\ \E r \in {eval_stmt(heap, scopes,
                          IF bind_type = Declaration
                          THEN SDeclare(ListPattern(bind_type, p, collect), EVar(NameYs))
                          ELSE SAssign(ListPattern(bind_type, p, collect), EVar(NameYs)))} :
          /\ res' \in Builds(r.out, AtLoc("ListCollectTooFew"))
          /\ heap' = r.heap
          /\ scopes' = r.scopes
    /\ last' = [k |-> "destructure", bind_type |-> bind_type, p |-> p,
                collect |-> collect]
    /\ hist' = [hist EXCEPT !.n = @ + 1]

NextList ==
    \/ \E n \in 0..(MaxPattern + 1) : DeclareYs(n)
    \/ \E bind_type \in {Declaration, Assignment}, p \in 0..MaxPattern,
          collect \in BOOLEAN : Destructure(bind_type, p, collect)

SpecList == InitList /\ [][NextList]_vars

\* The value bound to pattern element i.
BoundTo(i) == ValueOf(get(heap, scopes, PatternNames(last.bind_type)[i]).v)
TheYs == ValueOf(get(heap, scopes, NameYs).v)

\* The pattern of p elements matched the n items: the elements before the
\* last positionally, the last positionally or to a new list of the rest.
Destructured(p, collect, items) ==
    /\ res = StmtOk
    /\ \A i \in 1..p :
          IF collect /\ i = p
          THEN /\ BoundTo(i).t = "list"
               /\ BoundTo(i) # TheYs
               /\ heap[BoundTo(i).h].items = SubSeq(items, p, Len(items))
          ELSE BoundTo(i) = items[i]
    /\ heap[TheYs.h].items = items

\* C19: a list pattern of p elements against a list of n: without collect
\* it succeeds iff n = p, binding element i to pattern element i, else
\* ListDestructureItemMismatch; with collect it succeeds iff n >= p - 1,
\* binding the last pattern element to a new list of elements p-1..n-1,
\* else ListCollectTooFew; for every p >= 0.
C19_ListDestructureForEveryLength ==
    last.k = "destructure" =>
        With([n \in {Len(hist.items)} |->
            IF ~last.collect
            THEN IF n = last.p THEN Destructured(last.p, FALSE, hist.items)
                 ELSE res.k = "err" /\ ErrorKind(res) = "ListDestructureItemMismatch"
            ELSE IF n >= last.p - 1 THEN Destructured(last.p, TRUE, hist.items)
                 ELSE res.k = "err" /\ ErrorKind(res) = "ListCollectTooFew"])

\* What the code does: the same for every pattern but the one of no
\* elements with collect, which ends in a panic or in ListCollectTooFew
\* whatever the list is.
ListDestructureButEmptyCollect ==
    last.k = "destructure" =>
        IF last.collect /\ last.p = 0
        THEN res = Panic \/ (res.k = "err" /\ ErrorKind(res) = "ListCollectTooFew")
        ELSE C19_ListDestructureForEveryLength

\* `[a, ..b] = ys` on a list of three: b is a new list of the last two.
RestCollected ==
    /\ last.k = "destructure"
    /\ last.collect
    /\ last.p = 2
    /\ Len(hist.items) = 3
    /\ res = StmtOk
    /\ heap[BoundTo(2).h].items = <<VInt(11), VInt(12)>>

(***************************************************************************)
(* SpecObject: `o := {..}` with keys out of a, b, c and _, the names a, b, *)
(* x, y, z and r declared, and then an object pattern of shorthands and    *)
(* pairs, with a rest element or without, assigned from o.                 *)
(***************************************************************************)

InitObject ==
    /\ heap = <<ScopeCell(EmptyScope)>>
    /\ scopes = <<1>>
    /\ res = Idle
    /\ last = [k |-> "init"]
    /\ hist = [n |-> 0, props |-> <<>>]

\* The keys an object can have, each with its value.
ObjectKeys == {NameA, NameB, NameC, Underscore}
KeyValue(key) ==
    CASE key = NameA -> 1 [] key = NameB -> 2 [] key = NameC -> 3 [] key = Underscore -> 4
KeySeq == <<NameA, NameB, NameC, Underscore>>
ObjectOf(keys) ==
    EObject(SelectSeq([i \in 1..4 |-> Pair(EStr(KeySeq[i]), EInt(KeyValue(KeySeq[i])))],
                      LAMBDA pair : pair.name.s \in keys))
PropsOfKeys(keys) ==
    InsertAll(<<>>, SelectSeq([i \in 1..4 |-> PairOf(KeySeq[i], VInt(KeyValue(KeySeq[i])))],
                              LAMBDA entry : entry.key \in keys), 1)

\* The elements of a pattern: `a`, `b`, `"a": x`, `"b": y` and `"_": z`,
\* each with the key it names and the variable it binds.
Element(form, key, target) == [form |-> form, key |-> key, target |-> target]
ObjectElements ==
    {Element("shorthand", NameA, NameA), Element("shorthand", NameB, NameB),
     Element("pair", NameA, NameX), Element("pair", NameB, NameY),
     Element("pair", Underscore, NameZ)}
ElementItem(el) ==
    IF el.form = "shorthand" THEN Single(EVar(el.target), FALSE, FALSE)
    ELSE Pair(EStr(el.key), EVar(el.target))
RestItem == Single(EVar(NameR), FALSE, TRUE)
ObjectPattern(els, rest) ==
    EObject([i \in 1..Len(els) |-> ElementItem(els[i])]
            \o (IF rest THEN <<RestItem>> ELSE <<>>))
ElementSeqs ==
    {els \in SeqsUpTo(ObjectElements, MaxElements) :
        \A i, j \in 1..Len(els) : i # j => els[i] # els[j]}

DeclareO(keys) ==
    /\ last.k = "init"
    /\ \E r \in {eval_stmts_with_scope_stack(heap, scopes,
                    <<SDeclare(EVar(NameO), ObjectOf(keys)),
                      SDeclare(ListOf(<<EVar(NameA), EVar(NameB), EVar(NameX),
                                        EVar(NameY), EVar(NameZ), EVar(NameR)>>),
                               ListOf(<<ENull, ENull, ENull, ENull, ENull, ENull>>))>>,
                    1)} :
          /\ res' = r.out
          /\ heap' = r.heap
          /\ scopes' = r.scopes
    /\ last' = [k |-> "declare"]
    /\ hist' = [n |-> 0, props |-> PropsOfKeys(keys)]

\* `{a, "b": y, ..r} = o;`
DestructureObject(els, rest) ==
    /\ last.k = "declare"
    /\ \E r \in {eval_stmt(heap, scopes, SAssign(ObjectPattern(els, rest), EVar(NameO)))} :
          /\ res' = r.out
          /\ heap' = r.heap
          /\ scopes' = r.scopes
    /\ last' = [k |-> "destructure", els |-> els, rest |-> rest]
    /\ hist' = [hist EXCEPT !.n = @ + 1]

NextObject ==
    \/ \E keys \in SUBSET ObjectKeys : DeclareO(keys)
    \/ \E els \in ElementSeqs, rest \in BOOLEAN : DestructureObject(els, rest)

SpecObject == InitObject /\ [][NextObject]_vars

VarNow(name) == ValueOf(get(heap, scopes, name).v)
NamedKeys(els) == {els[i].key : i \in 1..Len(els)}

\* The rest element holds a new object of the keys of o that the pattern
\* did not name, each with o's value.
RestBound(els) ==
    /\ VarNow(NameR).t = "object"
    /\ VarNow(NameR) # VarNow(NameO)
    /\ KeysOf(heap[VarNow(NameR).h].props) = KeysOf(hist.props) \ NamedKeys(els)
    /\ \A key \in KeysOf(heap[VarNow(NameR).h].props) :
          ValueOf(GetKey(heap[VarNow(NameR).h].props, key)) = GetKey(hist.props, key)

\* The pattern is bound: every element but those of the given keys holds
\* o's value of its key, those hold what they held, null; and o is as it
\* was.
ObjectDestructured(els, rest, skipped) ==
    /\ res = StmtOk
    /\ \A i \in 1..Len(els) :
          VarNow(els[i].target) =
              IF els[i].key \in skipped THEN VNull ELSE GetKey(hist.props, els[i].key)
    /\ rest => RestBound(els)
    /\ heap[VarNow(NameO).h].props = hist.props

\* C20: for an object pattern against an object o that has the keys the
\* pattern names: every shorthand `a` binds o[a] to a, every pair
\* `k: pattern` binds o[k] to the pattern for every key string k, other
\* keys of o are ignored, a final rest element is bound to a new object of
\* exactly the keys not named before it, and o is unchanged.
C20_ObjectDestructureEveryKey ==
    (last.k = "destructure" /\ NamedKeys(last.els) \subseteq KeysOf(hist.props)) =>
        ObjectDestructured(last.els, last.rest, {})

\* What the code does: the same, but a pair whose key is `_` binds
\* nothing, and its key is still left out of the rest.
ObjectDestructureButUnderscoreKey ==
    (last.k = "destructure" /\ NamedKeys(last.els) \subseteq KeysOf(hist.props)) =>
        ObjectDestructured(last.els, last.rest, {Underscore})

\* `{"_": z, ..r} = o` on an o with the keys _ and c: z is null as before
\* and r has the key c only.
UnderscorePairSkipped ==
    /\ last.k = "destructure"
    /\ last.els = <<Element("pair", Underscore, NameZ)>>
    /\ last.rest
    /\ KeysOf(hist.props) = {Underscore, NameC}
    /\ res = StmtOk
    /\ VarNow(NameZ) = VNull
    /\ KeysOf(heap[VarNow(NameR).h].props) = {NameC}

(***************************************************************************)
(* SpecArity: `ran := false;` and then a call in place of                  *)
(* `fn(a, b, ..) { ran = true; return [a, b, ..]; }`, with collect_args or *)
(* without, on arguments given one by one and by a spread of a list.       *)
(***************************************************************************)

InitArity ==
    /\ heap = <<ScopeCell(EmptyScope)>>
    /\ scopes = <<1>>
    /\ res = Idle
    /\ last = [k |-> "init"]
    /\ hist = 0

NameRan == <<114, 97, 110>>
ParamNames == <<NameA, NameB, NameC>>
Params(p) == [i \in 1..p |-> EVar(ParamNames[i])]
ArityFunc(p, collect_args) ==
    EFunc(Params(p), collect_args,
          <<SAssign(EVar(NameRan), EBool(TRUE)), SReturn(NoLoc, ListOf(Params(p)))>>)

\* The arguments: k integers and then, if any, `..[30, ..]` of j items.
SpreadCounts == {None} \cup {Some(j) : j \in 0..MaxArgs}
CallArgs(k, spread) ==
    [i \in 1..k |-> Item(EInt(20 + i - 1))]
    \o (IF spread.some THEN <<SpreadItem(IntsExpr(30, spread.v))>> ELSE <<>>)
ArgValues(k, spread) ==
    Ints(20, k) \o (IF spread.some THEN Ints(30, spread.v) ELSE <<>>)

DeclareRan ==
    /\ last.k = "init"
    /\ \E r \in {eval_stmt(heap, scopes, SDeclare(EVar(NameRan), EBool(FALSE)))} :
          /\ res' = r.out
          /\ heap' = r.heap
          /\ scopes' = r.scopes
    /\ last' = [k |-> "declare"]
    /\ hist' = hist

\* The call; a usize overflow in the check ends it as the build makes it.
CallArity(p, collect_args, k, spread) ==
    /\ last.k = "declare"
    /\ \E r \in {eval_expr(heap, scopes,
                          ECall(ArityFunc(p, collect_args), CallArgs(k, spread)))} :
          /\ res' \in Builds(r.out, AtLoc("TooFewArgs"))
          /\ heap' = r.heap
    /\ last' = [k |-> "call", p |-> p, collect_args |-> collect_args,
                args |-> ArgValues(k, spread)]
    /\ hist' = hist + 1
    /\ UNCHANGED scopes

NextArity ==
    \/ DeclareRan
    \/ \E p \in 0..MaxParams, collect_args \in BOOLEAN, k \in 0..MaxArgs,
          spread \in SpreadCounts : CallArity(p, collect_args, k, spread)

SpecArity == InitArity /\ [][NextArity]_vars

BodyRan == VarNow(NameRan) = VBool(TRUE)

\* The call went on: the body ran with the parameters bound to the
\* arguments, the last one to a new list of the rest under collect_args.
Proceeded(p, collect_args, args) ==
    /\ res.k = "ok"
    /\ BodyRan
    /\ res.v.t = "list"
    /\ Len(heap[res.v.h].items) = p
    /\ \A i \in 1..p :
          With([v \in {ValueOf(heap[res.v.h].items[i])} |->
              IF collect_args /\ i = p
              THEN v.t = "list" /\ heap[v.h].items = SubSeq(args, p, Len(args))
              ELSE v = args[i]])

Refused(kind) ==
    /\ res.k = "err"
    /\ ErrorKind(res) = kind
    /\ ~BodyRan

\* C21: a call of a function of p parameters on a arguments, spreads
\* inlined: without collect_args it goes on iff a = p and else fails with
\* ArgNumMismatch before the body runs; with collect_args it goes on iff
\* a >= p - 1 and else fails with TooFewArgs, the last parameter bound to a
\* new list of the arguments p-1..a-1; for every p >= 0.
C21_ArityForEveryParamCount ==
    last.k = "call" =>
        IF ~last.collect_args
        THEN IF Len(last.args) = last.p
             THEN Proceeded(last.p, FALSE, last.args)
             ELSE Refused("ArgNumMismatch")
        ELSE IF Len(last.args) >= last.p - 1
             THEN Proceeded(last.p, TRUE, last.args)
             ELSE Refused("TooFewArgs")

\* What the code does: the same for every function but the one of no
\* parameters with collect_args, whose call ends in a panic or in
\* TooFewArgs before the body runs, whatever the arguments.
ArityButNoParamsCollect ==
    last.k = "call" =>
        IF last.collect_args /\ last.p = 0
        THEN ~BodyRan /\ (res = Panic \/ Refused("TooFewArgs"))
        ELSE C21_ArityForEveryParamCount

\* `(fn(a, ..b) {..})(20, ..[30, 31])`: b is [30, 31].
SpreadArgumentsCollected ==
    /\ last.k = "call"
    /\ last.collect_args
    /\ last.p = 2
    /\ last.args = <<VInt(20), VInt(30), VInt(31)>>
    /\ Proceeded(2, TRUE, last.args)

(***************************************************************************)
(* SpecLock: `xs := [v0, v1]; ys := [xs, 0];` with each of v0, v1 an       *)
(* integer, a list or a list of a list, and then one statement that uses a *)
(* container together with itself or with a container it holds.            *)
(***************************************************************************)

InitLock ==
    /\ heap = <<ScopeCell(EmptyScope)>>
    /\ scopes = <<1>>
    /\ res = Idle
    /\ last = [k |-> "init"]
    /\ hist = <<>>

\* 1, [1] and [[1]]
Depths == 0..2
Nested(depth) ==
    CASE depth = 0 -> EInt(1)
      [] depth = 1 -> ListOf(<<EInt(1)>>)
      [] depth = 2 -> ListOf(<<ListOf(<<EInt(1)>>)>>)

\* The operands: xs, ys, xs[0], xs[1], [xs] and [2].
Operands == {"xs", "ys", "xs0", "xs1", "inlist", "fresh"}
Operand(a) ==
    CASE a = "xs" -> EVar(NameXs)
      [] a = "ys" -> EVar(NameYs)
      [] a = "xs0" -> EIndex(EVar(NameXs), EInt(0))
      [] a = "xs1" -> EIndex(EVar(NameXs), EInt(1))
      [] a = "inlist" -> ListOf(<<EVar(NameXs)>>)
      [] a = "fresh" -> ListOf(<<EInt(2)>>)

\* `xs[i] += b;`, `a == b;`, `xs = [..xs, ..xs];`, `[xs[0], xs[1]] = xs;`,
\* `xs[0..2] = xs;`, `[ys[0], ..ys[1]] = ys;` and
\* `for [i, v] in xs { xs[i] = xs; }`
LockStmt(form, i, a, b) ==
    CASE form = "op" -> SOpAssign(EIndex(EVar(NameXs), EInt(i)), "Sum", Operand(b))
      [] form = "eq" -> SExpr(EBin("Eq", Operand(a), Operand(b)))
      [] form = "spread" ->
            SAssign(EVar(NameXs),
                    EList(<<SpreadItem(EVar(NameXs)), SpreadItem(EVar(NameXs))>>, FALSE))
      [] form = "destructure" ->
            SAssign(ListOf(<<EIndex(EVar(NameXs), EInt(0)),
                             EIndex(EVar(NameXs), EInt(1))>>), EVar(NameXs))
      [] form = "range" ->
            SAssign(ERangeIndex(EVar(NameXs), Some(EInt(0)), Some(EInt(2))),
                    EVar(NameXs))
      [] form = "collect" ->
            SAssign(EList(<<Item(EIndex(EVar(NameYs), EInt(0))),
                            Item(EIndex(EVar(NameYs), EInt(1)))>>, TRUE), EVar(NameYs))
      [] form = "for" ->
            SFor(ListOf(<<EVar(NameI), EVar(NameV)>>), EVar(NameXs),
                 <<SAssign(EIndex(EVar(NameXs), EVar(NameI)), EVar(NameXs))>>)
SelfForms == {"spread", "destructure", "range", "collect", "for"}

DeclareLists(d0, d1) ==
    /\ last.k = "init"
    /\ \E r \in {eval_stmts_with_scope_stack(heap, scopes,
                    <<SDeclare(EVar(NameXs), ListOf(<<Nested(d0), Nested(d1)>>)),
                      SDeclare(EVar(NameYs), ListOf(<<EVar(NameXs), EInt(0)>>))>>, 1)} :
          /\ res' = r.out
          /\ heap' = r.heap
          /\ scopes' = r.scopes
    /\ last' = [k |-> "declare"]
    /\ hist' = <<d0, d1>>

RunLockStmt(form, i, a, b) ==
    /\ last.k = "declare"
    /\ \E r \in {eval_stmt(heap, scopes, LockStmt(form, i, a, b))} :
          /\ res' = r.out
          /\ heap' = r.heap
          /\ scopes' = r.scopes
    /\ last' = [k |-> "ran", form |-> form, i |-> i, a |-> a, b |-> b]
    /\ UNCHANGED hist

NextLock ==
    \/ \E d0 \in Depths, d1 \in Depths : DeclareLists(d0, d1)
    \/ \E i \in 0..1, b \in Operands : RunLockStmt("op", i, "xs", b)
    \/ \E a \in Operands, b \in Operands : RunLockStmt("eq", 0, a, b)
    \/ \E form \in SelfForms : RunLockStmt(form, 0, "xs", "xs")

SpecLock == InitLock /\ [][NextLock]_vars

\* C22: no statement takes a lock that is held, so none ends in the panic
\* of a failed acquisition: not an op-assignment to a slot from the
\* container of the slot, not `==` between a container and one it holds,
\* not a spread or a destructuring of a container into itself.
C22_NoLockTakenTwice ==
    last.k = "ran" => res # Panic

\* What the code does: spreads, destructurings, range assignments and for
\* loops of a list into itself take each lock once; `xs[i] += b` fails to
\* lock exactly when the slot holds a list and b is xs, whose lock the
\* assignment holds around the slot; `==` can only fail to lock on lists
\* that hold a list.
LockTakenTwiceOnlyBy ==
    last.k = "ran" =>
        /\ last.form \in SelfForms => res = StmtOk
        /\ last.form = "op" =>
              (res = Panic <=> (hist[last.i + 1] > 0 /\ last.b = "xs"))
        /\ (last.form = "eq" /\ res = Panic) => \E j \in 1..2 : hist[j] > 0

\* `xs := [[1], 1]; xs[0] += xs;` panics.
OpAssignFromOwnContainerPanics ==
    /\ last.k = "ran"
    /\ last.form = "op"
    /\ last.i = 0
    /\ last.b = "xs"
    /\ hist = <<1, 0>>
    /\ res = Panic

\* `xs := [[1], 1]; ys := [xs, 0]; ys == xs;` panics.
EqWithHeldContainerPanics ==
    /\ last.k = "ran"
    /\ last.form = "eq"
    /\ last.a = "ys"
    /\ last.b = "xs"
    /\ hist = <<1, 0>>
    /\ res = Panic

(***************************************************************************)
(* SpecBlock: `fn f() { loop { n += 1; W; m += 1; } m += 10; return 8; }   *)
(* r = f();` where W is `break;`, `continue;` or `return 7;` followed by   *)
(* `w = 1;`, alone or inside if, else and bare blocks, and the loop is a   *)
(* while or a for of k rounds, or is left out.                             *)
(***************************************************************************)

InitBlock ==
    /\ heap = <<ScopeCell([name \in {NameR, NameN, NameM, NameW} |->
                              ScopeEntry(IF name = NameR THEN VNull ELSE VInt(0),
                                         NoLoc, Var)])>>
    /\ scopes = <<1>>
    /\ res = Idle
    /\ last = [k |-> "init"]
    /\ hist = 0

Escapes == {"break", "continue", "return"}
EscapeStmt(esc) ==
    CASE esc = "break" -> SBreak(EscapeLoc)
      [] esc = "continue" -> SContinue(EscapeLoc)
      [] esc = "return" -> SReturn(EscapeLoc, EInt(7))

\* The escape and the statement after it, as they are, in an if branch, in
\* an else branch, in a bare block, and in the two nestings of those.
Wraps == {"direct", "if", "else", "block", "ifblock", "blockif"}
BareBlockWraps == {"block", "ifblock", "blockif"}
Wrapped(wrap, esc) ==
    With([stmts \in {<<EscapeStmt(esc), SAssign(EVar(NameW), EInt(1))>>} |->
        CASE wrap = "direct" -> stmts
          [] wrap = "if" -> <<IfTrue(stmts)>>
          [] wrap = "else" -> <<IfElse(stmts)>>
          [] wrap = "block" -> <<SBlock(stmts)>>
          [] wrap = "ifblock" -> <<IfTrue(<<SBlock(stmts)>>)>>
          [] wrap = "blockif" -> <<SBlock(<<IfTrue(stmts)>>)>>])

Loops == {"while", "for", "none"}
Round(wrap, esc) ==
    <<SOpAssign(EVar(NameN), "Sum", EInt(1))>> \o Wrapped(wrap, esc)
    \o <<SOpAssign(EVar(NameM), "Sum", EInt(1))>>
Looped(loop, rounds, wrap, esc) ==
    CASE loop = "while" ->
            <<SWhile(EBin("Lt", EVar(NameN), EInt(rounds)), Round(wrap, esc))>>
      [] loop = "for" ->
            <<SFor(EVar(Underscore), IntsExpr(1, rounds), Round(wrap, esc))>>
      [] loop = "none" -> Round(wrap, esc)
BlockProgram(loop, rounds, wrap, esc) ==
    <<SFunc(NameF, <<>>, FALSE,
            Looped(loop, rounds, wrap, esc)
            \o <<SOpAssign(EVar(NameM), "Sum", EInt(10)), SReturn(NoLoc, EInt(8))>>),
      SAssign(EVar(NameR), ECall(EVar(NameF), <<>>))>>

RunBlock(loop, rounds, wrap, esc) ==
    /\ last.k = "init"
    /\ loop = "none" => esc = "return" /\ rounds = 1
    /\ \E v \in {eval_prog(heap, scopes, <<>>, BlockProgram(loop, rounds, wrap, esc))} :
          /\ res' = v.out
          /\ heap' = v.heap
          /\ scopes' = v.scopes
    /\ last' = [k |-> "ran", loop |-> loop, rounds |-> rounds, wrap |-> wrap,
                esc |-> esc]
    /\ hist' = hist + 1

NextBlock ==
    \E loop \in Loops, rounds \in 1..MaxRounds, wrap \in Wraps, esc \in Escapes :
        RunBlock(loop, rounds, wrap, esc)

SpecBlock == InitBlock /\ [][NextBlock]_vars

\* The values of n, m, w and r at the end.
Counted(n, m, w, r) ==
    /\ res = StmtOk
    /\ Global(NameN) = VInt(n)
    /\ Global(NameM) = VInt(m)
    /\ Global(NameW) = VInt(w)
    /\ Global(NameR) = VInt(r)

\* The escape acted on its loop or call: break left the loop in the first
\* round, continue skipped the rest of every round, return ended the call.
EscapeActed(loop, rounds, esc) ==
    CASE esc = "break" -> Counted(1, 10, 0, 8)
      [] esc = "continue" -> Counted(rounds, 10, 0, 8)
      [] esc = "return" -> Counted(1, 0, 0, 7)

\* The escape was lost: every round ran to its end.
EscapeLost(rounds) == Counted(rounds, rounds + 10, 0, 8)

\* C23: an escape stops the statements after it in every enclosing list
\* and goes out through if, else and bare blocks to the innermost loop or
\* to the call: no statement after the block runs in that round or body.
C23_EscapeThroughBlocks ==
    last.k = "ran" => EscapeActed(last.loop, last.rounds, last.esc)

\* What the code does: the escape goes out through if and else, and
\* Stmt::Block drops it: the statements after a bare block run.
EscapeLostInBareBlock ==
    last.k = "ran" =>
        IF last.wrap \in BareBlockWraps THEN EscapeLost(last.rounds)
        ELSE EscapeActed(last.loop, last.rounds, last.esc)

\* `while n < 2 { n += 1; { break; w = 1; } m += 1; }` ran both rounds to
\* the end.
BreakInBareBlockLost ==
    /\ last.k = "ran"
    /\ last.loop = "while"
    /\ last.rounds = 2
    /\ last.wrap = "block"
    /\ last.esc = "break"
    /\ Counted(2, 12, 0, 8)

(***************************************************************************)
(* SpecSlot: `o := {"a": IntMax - 1, "b": [1]};` and then writes           *)
(* `o[k] = v`, `o[k] op= v`, `o.k = v` and `o.k op= v` for the keys a, b   *)
(* and c, the operators + and -, and v an integer, a list or a string.     *)
(***************************************************************************)

InitSlot ==
    /\ heap = <<ScopeCell(EmptyScope)>>
    /\ scopes = <<1>>
    /\ res = Idle
    /\ last = [k |-> "init"]
    /\ hist = [n |-> 0, props |-> <<>>]

\* A value with the items of a list in place of its handle.
Content(h, v) ==
    IF v.t = "list" THEN [t |-> "list", items |-> h[v.h].items] ELSE ValueOf(v)
Contents(h, props) ==
    [i \in 1..Len(props) |-> PairOf(props[i].key, Content(h, props[i].val))]
ContentsOfO == Contents(heap, heap[VarNow(NameO).h].props)

SlotKeys == {NameA, NameB, NameC}
SlotOps == {None, Some("Sum"), Some("Sub")}
SlotRhs == {"one", "two", "list", "str"}
SlotRhsExpr(rhs) ==
    CASE rhs = "one" -> EInt(1)
      [] rhs = "two" -> EInt(2)
      [] rhs = "list" -> ListOf(<<EInt(2)>>)
      [] rhs = "str" -> EStr(<<115>>)
SlotRhsContent(rhs) ==
    CASE rhs = "one" -> VInt(1)
      [] rhs = "two" -> VInt(2)
      [] rhs = "list" -> [t |-> "list", items |-> <<VInt(2)>>]
      [] rhs = "str" -> VStr(<<115>>)
SlotTarget(form, key) ==
    IF form = "index" THEN EIndex(EVar(NameO), EStr(key)) ELSE EProp(EVar(NameO), key)

DeclareSlots ==
    /\ last.k = "init"
    /\ \E r \in {eval_stmt(heap, scopes,
                          SDeclare(EVar(NameO),
                                   EObject(<<Pair(EStr(NameA), EInt(IntMax - 1)),
                                             Pair(EStr(NameB), ListOf(<<EInt(1)>>))>>)))} :
          /\ res' = r.out
          /\ heap' = r.heap
          /\ scopes' = r.scopes
    /\ last' = [k |-> "declare"]
    /\ UNCHANGED hist

WriteSlot(form, key, op, rhs) ==
    /\ last.k # "init"
    /\ hist.n < MaxSlotWrites
    /\ \E r \in {eval_stmt(heap, scopes,
                          IF op.some
                          THEN SOpAssign(SlotTarget(form, key), op.v, SlotRhsExpr(rhs))
                          ELSE SAssign(SlotTarget(form, key), SlotRhsExpr(rhs)))} :
          /\ res' = r.out
          /\ heap' = r.heap
          /\ scopes' = r.scopes
    /\ last' = [k |-> "write", form |-> form, key |-> key, op |-> op,
                rhs |-> SlotRhsContent(rhs)]
    /\ hist' = [n |-> hist.n + 1, props |-> ContentsOfO]

NextSlot ==
    \/ DeclareSlots
    \/ \E form \in {"index", "prop"}, key \in SlotKeys, op \in SlotOps,
          rhs \in SlotRhs : WriteSlot(form, key, op, rhs)

SpecSlot == InitSlot /\ [][NextSlot]_vars

\* `old op v` on contents: None when the application fails.
OpApplied(old, op, v) ==
    IF old.t = "int" /\ v.t = "int" THEN
        With([n \in {IF op = "Sum" THEN old.n + v.n ELSE old.n - v.n} |->
            IF InI64(n) THEN Some(VInt(n)) ELSE None])
    ELSE IF op = "Sum" /\ old.t = "str" /\ v.t = "str" THEN Some(VStr(old.s \o v.s))
    ELSE IF op = "Sum" /\ old.t = "list" /\ v.t = "list"
        THEN Some([t |-> "list", items |-> old.items \o v.items])
    ELSE None

SlotFailed(kinds) ==
    /\ res.k = "err"
    /\ ErrorKind(res) \in kinds
    /\ ContentsOfO = hist.props

\* C24: a write to a key of o by index or by property: the value of a key
\* that exists becomes v, or `old op v`; a key that is missing is inserted
\* with v, or the write fails with OpOnUndefinedIndex / OpOnUndefinedProp
\* when an op is given; when the write fails, a failing op included, o is
\* as it was, and no other key is changed by any write.
C24_ObjectSlotWrite ==
    last.k = "write" =>
        IF HasKey(hist.props, last.key) THEN
            With([new \in {IF last.op.some
                           THEN OpApplied(GetKey(hist.props, last.key), last.op.v, last.rhs)
                           ELSE Some(last.rhs)} |->
                IF new.some
                THEN /\ res = StmtOk
                     /\ ContentsOfO = BTreeInsert(hist.props, last.key, new.v)
                ELSE SlotFailed({"Runtime", "InvalidBinOpTypes"})])
        ELSE IF last.op.some
            THEN SlotFailed({IF last.form = "index" THEN "OpOnUndefinedIndex"
                             ELSE "OpOnUndefinedProp"})
        ELSE /\ res = StmtOk
             /\ ContentsOfO = BTreeInsert(hist.props, last.key, last.rhs)

\* `o.a += 2` overflowed and o is as it was, the key c inserted before
\* still there.
C24_FailedOpLeavesObject ==
    /\ last.k = "write"
    /\ last.form = "prop"
    /\ last.key = NameA
    /\ last.op = Some("Sum")
    /\ last.rhs = VInt(2)
    /\ res.k = "err"
    /\ ErrorKind(res) = "Runtime"
    /\ KeysOf(hist.props) = {NameA, NameB, NameC}
    /\ ContentsOfO = hist.props

\* `o["c"] -= 1` on a missing key.
C24_OpOnMissingKey ==
    /\ last.k = "write"
    /\ last.form = "index"
    /\ last.key = NameC
    /\ last.op = Some("Sub")
    /\ res.k = "err"
    /\ ErrorKind(res) = "OpOnUndefinedIndex"
    /\ ContentsOfO = hist.props

(***************************************************************************)
(* SpecParams: `fn f(params) {}` statements over parameter lists of up to  *)
(* MaxParamList patterns: variables, `_`, flat and nested list and object  *)
(* patterns, patterns with a spread or a collect element, and a literal.   *)
(***************************************************************************)

InitParams ==
    /\ heap = <<ScopeCell(EmptyScope)>>
    /\ scopes = <<1>>
    /\ res = Idle
    /\ last = [k |-> "init"]
    /\ hist = <<>>

ParamPatterns ==
    {EVar(NameA), EVar(NameB), EVar(Underscore),
     ListOf(<<EVar(NameA)>>),
     ListOf(<<EVar(NameB), ListOf(<<EVar(NameA)>>)>>),
     EObject(<<Single(EVar(NameA), FALSE, FALSE)>>),
     EObject(<<Pair(EStr(NameB), ListOf(<<EVar(Underscore), EVar(NameA)>>))>>),
     EList(<<SpreadItem(EVar(NameC))>>, FALSE),
     EList(<<Item(EVar(NameC))>>, TRUE),
     EObject(<<Single(EVar(NameC), TRUE, FALSE)>>),
     EObject(<<Single(EVar(NameC), FALSE, TRUE)>>),
     EInt(1)}

DefineFunc(params) ==
    /\ last.k = "init"
    /\ \E r \in {eval_stmt(heap, scopes, SFunc(NameF, params, FALSE, <<>>))} :
          /\ res' = r.out
          /\ heap' = r.heap
          /\ scopes' = r.scopes
    /\ last' = [k |-> "func", params |-> params]
    /\ UNCHANGED hist

NextParams ==
    \E params \in SeqsUpTo(ParamPatterns, MaxParamList) \ {<<>>} : DefineFunc(params)

SpecParams == InitParams /\ [][NextParams]_vars

\* The sub-patterns of a pattern, and the names bound anywhere in it.
SubPatterns(e) ==
    CASE e.e = "List" -> [i \in 1..Len(e.items) |-> e.items[i].expr]
      [] e.e = "Object" ->
            [i \in 1..Len(e.props) |->
                IF e.props[i].p = "Pair" THEN e.props[i].value ELSE e.props[i].expr]
      [] OTHER -> <<>>
RECURSIVE NamesIn(_)
RECURSIVE NamesInAll(_, _)
NamesIn(e) == IF e.e = "Var" THEN <<e.name>> ELSE NamesInAll(SubPatterns(e), 1)
NamesInAll(es, i) ==
    IF i > Len(es) THEN <<>> ELSE NamesIn(es[i]) \o NamesInAll(es, i + 1)
BoundTwice(es) ==
    \E i, j \in 1..Len(NamesInAll(es, 1)) :
        /\ i < j
        /\ NamesInAll(es, 1)[i] = NamesInAll(es, 1)[j]
        /\ NamesInAll(es, 1)[i] # Underscore

\* A spread, a collect element, or an expression that is no pattern,
\* anywhere in the pattern.
ShapeHere(kind, e) ==
    CASE kind = "spread" ->
            \/ e.e = "List" /\ \E i \in 1..Len(e.items) : e.items[i].is_spread
            \/ e.e = "Object" /\ \E i \in 1..Len(e.props) :
                  e.props[i].p = "Single" /\ e.props[i].is_spread
      [] kind = "collect" ->
            \/ e.e = "List" /\ e.collect
            \/ e.e = "Object" /\ \E i \in 1..Len(e.props) :
                  e.props[i].p = "Single" /\ e.props[i].collect
      [] kind = "other" -> e.e \notin {"Var", "List", "Object"}
RECURSIVE ShapeIn(_, _)
ShapeIn(kind, e) ==
    \/ ShapeHere(kind, e)
    \/ \E i \in 1..Len(SubPatterns(e)) : ShapeIn(kind, SubPatterns(e)[i])
ShapeInAny(kind, es) == \E i \in 1..Len(es) : ShapeIn(kind, es[i])

FuncDeclared == get(heap, scopes, NameF).some
FuncRefused == res.k = "err" /\ ~FuncDeclared

\* C25: the `fn` statement validates the whole parameter list: a name
\* other than `_` bound twice anywhere fails with DupParamName; a spread,
\* a collect element or an expression that is no pattern fails; and on
\* failure the function name is not declared.
C25_WholeParamListValidated ==
    last.k = "func" =>
        /\ res.k = "err" => ~FuncDeclared
        /\ (ShapeInAny("spread", last.params) \/ ShapeInAny("collect", last.params)
               \/ ShapeInAny("other", last.params)) => FuncRefused
        /\ BoundTwice(last.params) => FuncRefused
        /\ (/\ BoundTwice(last.params)
            /\ ~ShapeInAny("spread", last.params)
            /\ ~ShapeInAny("collect", last.params)
            /\ ~ShapeInAny("other", last.params))
               => FuncRefused /\ ErrorKind(res) = "DupParamName"

\* What holds: the same for the parameter lists with no `_` and no
\* collect element, and no function is declared by a failing statement.
ParamListValidatedButUnderscoreAndCollect ==
    last.k = "func" =>
        /\ res.k = "err" => ~FuncDeclared
        /\ ((\A i \in 1..Len(NamesInAll(last.params, 1)) :
                  NamesInAll(last.params, 1)[i] # Underscore)
               /\ ~ShapeInAny("collect", last.params)) =>
              /\ (ShapeInAny("spread", last.params) \/ ShapeInAny("other", last.params)
                     \/ BoundTwice(last.params)) <=> FuncRefused
              /\ (BoundTwice(last.params) /\ ~ShapeInAny("spread", last.params)
                     /\ ~ShapeInAny("other", last.params))
                     => ErrorKind(res) = "DupParamName"

\* `fn f(_, a, a) {}` declares f.
DupAfterUnderscoreAccepted ==
    /\ last.k = "func"
    /\ last.params = <<EVar(Underscore), EVar(NameA), EVar(NameA)>>
    /\ res = StmtOk
    /\ FuncDeclared

\* `fn f([c..]) {}` declares f.
CollectParamAccepted ==
    /\ last.k = "func"
    /\ last.params = <<EList(<<Item(EVar(NameC))>>, TRUE)>>
    /\ res = StmtOk
    /\ FuncDeclared

(***************************************************************************)
(* SpecTrace: a program of up to MaxDepth functions, each calling the      *)
(* next from a statement of one of CallForms and the last one failing, is  *)
(* evaluated by eval_prog, and the error is handed to                      *)
(* eval_err_to_stacktrace as main does.                                    *)
(***************************************************************************)

\* main.rs eval_err_to_stacktrace.  The wrappers it unwinds:
Unwound ==
    {"BindFailed", "BindObjectCollectFailed", "BindObjectSingleFailed",
     "BindObjectPairFailed", "BindListItemFailed", "BindNextFailed",
     "EvalProgFailed", "EvalStmtsInNewScopeFailed",
     "EvalStmtsWithScopeStackFailed", "EvalStmtsFailed",
     "EvalDeclarationRhsFailed", "DeclarationBindFailed",
     "EvalAssignmentRhsFailed", "AssignmentBindFailed",
     "OpAssignmentBindFailed", "EvalIfConditionFailed",
     "EvalIfStatementsFailed", "EvalElseStatementsFailed",
     "EvalWhileConditionFailed", "EvalWhileStatementsFailed",
     "EvalForIterFailed", "ConvertForIterToPairsFailed",
     "EvalForStatementsFailed", "ValidateArgsFailed",
     "DeclareFunctionFailed", "EvalBlockFailed", "EvalStmtFailed",
     "EvalBinOpLhsFailed", "EvalBinOpRhsFailed", "ApplyBinOpFailed",
     "BinOpAssignListIndexFailed", "BinOpAssignObjectIndexFailed",
     "BinOpAssignPropFailed", "EvalListItemsFailed", "EvalListItemFailed",
     "EvalSourceExprFailed", "EvalStringIndexFailed", "EvalListIndexFailed",
     "EvalObjectIndexFailed", "EvalObjectPropFailed", "EvalIndexToI64Failed",
     "EvalStartIndexFailed", "EvalEndIndexFailed",
     "EvalStringRangeIndexFailed", "EvalListRangeIndexFailed",
     "EvalRangeStartFailed", "EvalRangeEndFailed", "EvalPropNameFailed",
     "EvalPropValueFailed", "EvalCallFailed", "EvalCallArgsFailed",
     "EvalCallFuncFailed", "EvalCatchAsBoolFailed", "EvalExprFailed",
     "EvalPropFailed", "InterpolateStringFailed",
     "InterpolateStringEvalExprFailed", "AssertArgsFailed",
     "AssertThisFailed", "AssertNoThisFailed", "AssertStrFailed"}

Root == <<60, 114, 111, 111, 116, 62>>
UnnamedFunction == <<60, 117, 110, 110, 97, 109, 101, 100, 62>>
unwrap_or(opt, default) == IF opt.some THEN opt.v ELSE default

\* The message is the list of the `line:col: in 'f':` prefixes and the kind
\* of the error that is displayed; the stacktrace has one entry for each
\* EvalFuncCallFailed crossed, pushed after the entries of its source.
RECURSIVE eval_err_to_stacktrace(_, _, _)
eval_err_to_stacktrace(func, e, calls) ==
    IF Len(e) > 1 /\ Head(e) \in Unwound
        THEN eval_err_to_stacktrace(func, Tail(e), calls)
    ELSE IF Len(e) > 1 /\ Head(e) = "EvalBuiltinFuncCallFailed" THEN
        With([st \in {eval_err_to_stacktrace(
                          Some(unwrap_or(Head(calls).func_name, UnnamedFunction)),
                          Tail(e), Tail(calls))} |->
            [st EXCEPT !.msg = <<[at |-> Head(calls).call_loc, in |-> func]>> \o @]])
    ELSE IF Len(e) > 1 /\ Head(e) = "EvalFuncCallFailed" THEN
        With([st \in {eval_err_to_stacktrace(
                          Some(unwrap_or(Head(calls).func_name, UnnamedFunction)),
                          Tail(e), Tail(calls))} |->
            [st EXCEPT !.stacktrace =
                Append(@, [at |-> Head(calls).call_loc, in |-> unwrap_or(func, Root)])]])
    ELSE IF Len(e) > 1 /\ Head(e) = "AtLoc" THEN
        With([st \in {eval_err_to_stacktrace(func, Tail(e), calls)} |->
            [st EXCEPT !.msg = <<[at |-> "AtLoc", in |-> func]>> \o @]])
    ELSE [stacktrace |-> <<>>, msg |-> <<Head(e)>>]

InitTrace ==
    /\ heap = <<>>
    /\ scopes = <<>>
    /\ res = Idle
    /\ last = [k |-> "init"]
    /\ hist = <<>>

\* The functions f1, f2, ..
TraceFunc(i) == <<102, 48 + i>>
CallForms == {"stmt", "declare", "if", "arg", "return", "unary"}
RootErrors == {"undefined", "builtin", "returned"}

\* The call of function i, at line i.
CallOf(i) == At(ECall(EVar(TraceFunc(i)), <<>>), Loc(i, 1))
CallStmt(form, i) ==
    CASE form = "stmt" -> SExpr(CallOf(i))
      [] form = "declare" -> SDeclare(EVar(NameV), CallOf(i))
      [] form = "if" -> SIf(<<Branch(CallOf(i), <<>>)>>, None)
      [] form = "arg" -> SExpr(ECall(EVar(NamePrint), <<Item(CallOf(i))>>))
      [] form = "return" -> SReturn(Loc(i, 0), CallOf(i))
      [] form = "unary" -> SExpr(EUnary("Not", CallOf(i)))
RootErrorStmt(root) ==
    CASE root = "undefined" -> SExpr(EVar(NameX))
      [] root = "builtin" -> SExpr(At(ECall(EVar(NamePrint), <<>>), Loc(9, 1)))
      [] root = "returned" -> SReturn(Loc(9, 0), EVar(NameX))

\* `fn f1() { <forms[2]> f2() }  fn f2() { .. }  ..  <forms[1]> f1()`: the
\* functions are declared before the call at the top level.
TraceProgram(forms, root) ==
    [i \in 1..Len(forms) |->
        SFunc(TraceFunc(i), <<>>, FALSE,
              <<IF i = Len(forms) THEN RootErrorStmt(root)
                ELSE CallStmt(forms[i + 1], i + 1)>>)]
    \o <<CallStmt(forms[1], 1)>>

RunTrace(forms, root) ==
    /\ last.k = "init"
    /\ \E r \in {eval_prog(heap, scopes,
                          <<Binding(EVar(NamePrint), VBuiltin(NamePrint))>>,
                          TraceProgram(forms, root))} :
          /\ res' = r.out
          /\ heap' = r.heap
          /\ scopes' = r.scopes
    /\ last' = [k |-> "ran", forms |-> forms, root |-> root]
    /\ UNCHANGED hist

\* main: Error::EvalFailed{source, ..} => eval_err_to_stacktrace(&path, None, source)
Stacktrace ==
    /\ last.k = "ran"
    /\ res.k = "err"
    /\ hist' = eval_err_to_stacktrace(None, res.e, CallsOf(res))
    /\ last' = [last EXCEPT !.k = "traced"]
    /\ UNCHANGED <<heap, scopes, res>>

NextTrace ==
    \/ \E forms \in SeqsUpTo(CallForms, MaxDepth) \ {<<>>}, root \in RootErrors :
          RunTrace(forms, root)
    \/ Stacktrace

SpecTrace == InitTrace /\ [][NextTrace]_vars

\* The calls active when the error is raised, the innermost first: the
\* call of function i is at line i, in function i - 1 or at the top level.
ActiveCalls(n) ==
    [j \in 1..n |-> [at |-> Loc(n - j + 1, 1),
                     in |-> IF j = n THEN Root ELSE TraceFunc(n - j)]]
EvalFuncCallFailedIn(e) ==
    Cardinality({i \in 1..Len(e) : e[i] = "EvalFuncCallFailed"})

\* C26: an error raised while n calls of user functions are active has a
\* stack trace of n entries, one for each EvalFuncCallFailed of the chain,
\* the innermost call first, each with the location of the call and the
\* name of the function the call is made in (`<root>` at the top level).
C26_StacktraceOfActiveCalls ==
    last.k = "traced" =>
        /\ EvalFuncCallFailedIn(res.e) = Len(last.forms)
        /\ hist.stacktrace = ActiveCalls(Len(last.forms))

\* The calls that are not made inside a `return` expression or the
\* operand of a unary operator of a call further out.
TracedCalls(forms) ==
    IF \E i \in 1..Len(forms) : forms[i] \in {"return", "unary"}
    THEN (CHOOSE i \in 1..Len(forms) :
              /\ forms[i] \in {"return", "unary"}
              /\ \A j \in 1..(i - 1) : forms[j] \notin {"return", "unary"}) - 1
    ELSE Len(forms)

\* What holds: the chain has one EvalFuncCallFailed for each active call,
\* and the trace has the entries of the calls up to the first one made in
\* a `return` expression or under a unary operator, the outermost last.
StacktraceUpToReturnOrUnary ==
    last.k = "traced" =>
        /\ EvalFuncCallFailedIn(res.e) = Len(last.forms)
        /\ hist.stacktrace =
              SubSeq(ActiveCalls(Len(last.forms)),
                     Len(last.forms) - TracedCalls(last.forms) + 1, Len(last.forms))

\* `fn f1() { return f2(); }  fn f2() { x; }  f1();`: one entry for two
\* calls.
ReturnedCallNotTraced ==
    /\ last.k = "traced"
    /\ last.forms = <<"stmt", "return">>
    /\ last.root = "undefined"
    /\ hist.stacktrace = <<[at |-> Loc(1, 1), in |-> Root]>>

\* Three calls made from statements, declarations and conditions: three
\* entries.
ThreeCallsTraced ==
    /\ last.k = "traced"
    /\ last.forms = <<"stmt", "declare", "if">>
    /\ hist.stacktrace = ActiveCalls(3)

(***************************************************************************)
(* SpecInterp: the literal `$"<text>"` for every text of up to MaxText     *)
(* characters of TextChars is read by the lexer's next_str_literal and,    *)
(* when it is a token, evaluated with x = "v" in scope.                    *)
(***************************************************************************)

\* lexer/mod.rs next_str_literal.  `chars` are the characters of the
\* literal, the slots are positions in `chars`.
LexErr(kind) == [k |-> "lexerr", e |-> kind]
InterpStrLiteral(chars, slots) == [k |-> "token", chars |-> chars, slots |-> slots]
StrScan(state, chars, first_hex_char, start, slots, brace_count) ==
    [state |-> state, chars |-> chars, first_hex_char |-> first_hex_char,
     cur_interpolation_start |-> start, interpolation_slots |-> slots,
     interpolation_brace_count |-> brace_count]
Push(st, c) == [st EXCEPT !.chars = Append(@, c)]
\* u8::from_str_radix(&c.to_string(), 16)
HexDigit(c) ==
    IF c \in 48..57 THEN Some(c - 48)
    ELSE IF c \in 97..102 THEN Some(c - 87)
    ELSE IF c \in 65..70 THEN Some(c - 55)
    ELSE None
BraceCount(n, c) == IF c = 123 THEN n + 1 ELSE IF c = 125 THEN n - 1 ELSE n

RECURSIVE StrScanFrom(_, _, _, _)
StrScanFrom(text, i, interpolate, st) ==
    IF i > Len(text) THEN InterpStrLiteral(st.chars, st.interpolation_slots)
    ELSE With([c \in {text[i]} |->
        CASE st.state = "None" ->
                IF c = 92 THEN
                    StrScanFrom(text, i + 1, interpolate, [st EXCEPT !.state = "Escape"])
                ELSE IF c = 36 THEN
                    IF interpolate
                    THEN StrScanFrom(text, i + 1, interpolate,
                             Push([st EXCEPT !.state = "Interpolate",
                                             !.cur_interpolation_start = Len(st.chars)],
                                  36))
                    ELSE LexErr("UnescapedDollar")
                ELSE IF c = 34 THEN InterpStrLiteral(st.chars, st.interpolation_slots)
                ELSE StrScanFrom(text, i + 1, interpolate, Push(st, c))
          [] st.state = "Escape" ->
                IF c \in {92, 34, 36} THEN
                    StrScanFrom(text, i + 1, interpolate,
                                Push([st EXCEPT !.state = "None"], c))
                ELSE IF c = 110 THEN
                    StrScanFrom(text, i + 1, interpolate,
                                Push([st EXCEPT !.state = "None"], 10))
                ELSE IF c = 114 THEN
                    StrScanFrom(text, i + 1, interpolate,
                                Push([st EXCEPT !.state = "None"], 13))
                ELSE IF c = 120 THEN
                    StrScanFrom(text, i + 1, interpolate, [st EXCEPT !.state = "Hex"])
                ELSE LexErr("InvalidEscapeChar")
          [] st.state = "Hex" ->
                IF ~HexDigit(c).some THEN LexErr("InvalidHexChar")
                ELSE IF ~st.first_hex_char.some THEN
                    StrScanFrom(text, i + 1, interpolate,
                                [st EXCEPT !.first_hex_char = HexDigit(c)])
                ELSE StrScanFrom(text, i + 1, interpolate,
                         Push([st EXCEPT !.first_hex_char = None, !.state = "None"],
                              st.first_hex_char.v * 16 + HexDigit(c).v))
          [] st.state = "Interpolate" ->
                IF st.cur_interpolation_start + 1 = Len(st.chars) /\ c # 123
                THEN LexErr("InvalidInterpolationStart")
                ELSE With([n \in {BraceCount(st.interpolation_brace_count, c)} |->
                    StrScanFrom(text, i + 1, interpolate,
                        Push([st EXCEPT
                                 !.interpolation_brace_count = n,
                                 !.interpolation_slots =
                                     IF n = 0
                                     THEN Append(@, <<st.cur_interpolation_start,
                                                      Len(st.chars) + 1>>)
                                     ELSE @,
                                 !.state = IF n = 0 THEN "None" ELSE @],
                             c))])])
next_str_literal(text, interpolate) ==
    StrScanFrom(text, 1, interpolate, StrScan("None", <<>>, None, 0, <<>>, 0))

\* a, e-acute (two bytes in UTF-8), `$`, `{`, `}`, x and the backslash.
TextChars == {97, 233, 36, 123, 125, 120, 92}
Texts == SeqsUpTo(TextChars, MaxText)
XValue == <<118>>

InitInterp ==
    /\ heap = <<ScopeCell([name \in {NameX} |-> ScopeEntry(VStr(XValue), NoLoc, Var)])>>
    /\ scopes = <<1>>
    /\ res = Idle
    /\ last \in {[k |-> "source", text |-> t] : t \in Texts}
    /\ hist = <<>>

\* The lexer on the characters after `$"`: the text and the closing quote.
LexLiteral ==
    /\ last.k = "source"
    /\ hist' = next_str_literal(Append(last.text, 34), TRUE)
    /\ last' = [last EXCEPT !.k = "lexed"]
    /\ UNCHANGED <<heap, scopes, res>>

\* The evaluator on the RawExpr::Str the parser makes of the token: the
\* String of the characters and the slots.
EvalLiteral ==
    /\ last.k = "lexed"
    /\ hist.k = "token"
    /\ \E r \in {eval_expr(heap, scopes, EInterpStr(Utf8(hist.chars), hist.slots))} :
          /\ res' = r.out
          /\ heap' = r.heap
    /\ last' = [last EXCEPT !.k = "evaluated"]
    /\ UNCHANGED <<scopes, hist>>

NextInterp == LexLiteral \/ EvalLiteral

SpecInterp == InitInterp /\ [][NextInterp]_vars

\* The literal with each slot replaced by the value of x, character by
\* character.
RECURSIVE Replaced(_, _, _, _)
Replaced(chars, slots, i, from) ==
    IF i > Len(slots) THEN SubSeq(chars, from + 1, Len(chars))
    ELSE SubSeq(chars, from + 1, slots[i][1]) \o XValue
             \o Replaced(chars, slots, i + 1, slots[i][2])
SlotsOfX ==
    /\ hist.slots # <<>>
    /\ \A i \in 1..Len(hist.slots) :
          SubSeq(hist.chars, hist.slots[i][1] + 1, hist.slots[i][2])
              = <<36, 123, 120, 125>>
SlotInBytes(i) ==
    StrSlice(Utf8(hist.chars), hist.slots[i][1], hist.slots[i][2])
        = Some(<<36, 123, 120, 125>>)

\* C27: for every interpolated literal, multi-byte characters before a
\* slot included, each slot delimits the text from its `$` to its `}` in
\* the literal as the evaluator indexes it, and the interpolation is the
\* literal with each `${x}` replaced by the string value of x; the
\* evaluator never indexes outside the literal or inside a character.
C27_SlotsDelimitInterpolatedText ==
    (last.k = "evaluated" /\ SlotsOfX) =>
        /\ \A i \in 1..Len(hist.slots) : SlotInBytes(i)
        /\ res = Ok(VStr(Utf8(Replaced(hist.chars, hist.slots, 1, 0))))

\* What holds: the same for the literals with no multi-byte character
\* before the end of the last slot.
OneByteBefore(n) == \A j \in 1..n : hist.chars[j] < 128
SlotsDelimitAfterOneByteChars ==
    (last.k = "evaluated" /\ SlotsOfX
        /\ OneByteBefore(hist.slots[Len(hist.slots)][2])) =>
        /\ \A i \in 1..Len(hist.slots) : SlotInBytes(i)
        /\ res = Ok(VStr(Utf8(Replaced(hist.chars, hist.slots, 1, 0))))

\* `$"e${x}"` with the two-byte e: the evaluator slices inside the
\* character.
SliceInsideCharacter ==
    /\ last.k = "evaluated"
    /\ last.text = <<233, 36, 123, 120, 125>>
    /\ hist.slots = <<<<1, 5>>>>
    /\ res = Panic

\* `$"${x}e"`: the character after the slot is kept.
CharacterAfterSlotKept ==
    /\ last.k = "evaluated"
    /\ last.text = <<36, 123, 120, 125, 233>>
    /\ res = Ok(VStr(<<118, 195, 169>>))

(***************************************************************************)
(* SpecLexer: Lexer::next (the Iterator of lexer/mod.rs) on every          *)
(* sequence of up to MaxTokens results of next_token.                      *)
(***************************************************************************)

\* The tokens after which `next` drops a StmtEnd.
StmtEndDroppedAfter ==
    {"AmpAmp", "BangEquals", "BraceOpen", "BracketOpen", "ColonEquals", "Comma",
     "Div", "DivEquals", "Dot", "Equals", "EqualsEquals", "GreaterThan",
     "GreaterThanEquals", "LessThan", "LessThanEquals", "Mod", "ModEquals", "Mul",
     "MulEquals", "ParenOpen", "PipePipe", "StmtEnd", "Sub", "SubEquals", "Sum",
     "SumEquals"}

\* Lexer::next: the items of next_token are read until one is returned;
\* last_token is the token read last, returned or not.  An Err of
\* next_token is returned as it is.
RECURSIVE next(_, _, _)
next(items, pos, last_token) ==
    IF pos > Len(items) THEN [pos |-> pos, last_token |-> last_token, item |-> None]
    ELSE IF items[pos] = "LexError"
        THEN [pos |-> pos + 1, last_token |-> last_token, item |-> Some(items[pos])]
    ELSE IF items[pos] # "StmtEnd"
        THEN [pos |-> pos + 1, last_token |-> Some(items[pos]),
              item |-> Some(items[pos])]
    ELSE IF last_token.some /\ last_token.v \notin StmtEndDroppedAfter
        THEN [pos |-> pos + 1, last_token |-> Some(items[pos]),
              item |-> Some(items[pos])]
    ELSE next(items, pos + 1, Some(items[pos]))

\* The results of next_token the sequences are made of.
TokenItems ==
    {"Ident", "StmtEnd", "Sum", "ColonEquals", "Comma", "BraceOpen", "BraceClose",
     "EqualsEqualsEquals", "LexError"}

InitLexer ==
    /\ heap = <<>>
    /\ scopes = <<>>
    /\ res = Idle
    /\ last \in {[items |-> items, pos |-> 1, last_token |-> None] :
                    items \in SeqsUpTo(TokenItems, MaxTokens)}
    /\ hist = <<>>

LexerNext ==
    /\ res = Idle
    /\ \E n \in {next(last.items, last.pos, last.last_token)} :
          /\ last' = [last EXCEPT !.pos = n.pos, !.last_token = n.last_token]
          /\ hist' = IF n.item.some THEN Append(hist, n.item.v) ELSE hist
          /\ res' = IF n.item.some THEN Idle ELSE StmtOk
    /\ UNCHANGED <<heap, scopes>>

NextLexer == LexerNext

SpecLexer == InitLexer /\ [][NextLexer]_vars

\* The binary and assignment operators, `,`, `.`, `(`, `[` and `{`.
BinaryOperators ==
    {"Sum", "Sub", "Mul", "Div", "Mod", "AmpAmp", "PipePipe", "EqualsEquals",
     "BangEquals", "GreaterThan", "GreaterThanEquals", "LessThan", "LessThanEquals",
     "EqualsEqualsEquals", "BangEqualsEquals"}
AssignmentOperators ==
    {"Equals", "ColonEquals", "SumEquals", "SubEquals", "MulEquals", "DivEquals",
     "ModEquals"}
ContinuationTokens ==
    BinaryOperators \cup AssignmentOperators
        \cup {"Comma", "Dot", "ParenOpen", "BracketOpen", "BraceOpen"}

\* The tokens read without the errors, and the stream of the items read
\* when a StmtEnd is dropped at the start, after a StmtEnd and after the
\* tokens of `after`.
RECURSIVE TokensOf(_)
TokensOf(items) ==
    IF items = <<>> THEN <<>>
    ELSE IF Head(items) = "LexError" THEN TokensOf(Tail(items))
    ELSE <<Head(items)>> \o TokensOf(Tail(items))
RECURSIVE StreamOf(_, _, _)
StreamOf(items, i, after) ==
    IF i > Len(items) THEN <<>>
    ELSE IF /\ items[i] = "StmtEnd"
            /\ \/ TokensOf(SubSeq(items, 1, i - 1)) = <<>>
               \/ TokensOf(SubSeq(items, 1, i - 1))[Len(TokensOf(SubSeq(items, 1, i - 1)))]
                      \in after \cup {"StmtEnd"}
        THEN StreamOf(items, i + 1, after)
    ELSE <<items[i]>> \o StreamOf(items, i + 1, after)
ItemsRead == SubSeq(last.items, 1, last.pos - 1)

\* C28: a StmtEnd is emitted iff a token was read before it and the token
\* read last is neither a StmtEnd nor a continuation token (a binary or
\* assignment operator, `,`, `.`, `(`, `[`, `{`); every other token is
\* emitted unchanged and in order.
C28_StmtEndAfterContinuationDropped ==
    hist = StreamOf(ItemsRead, 1, ContinuationTokens)

\* What holds: the same with `===` and `!==` not among the continuation
\* tokens.
StmtEndDroppedButAfterRefEq ==
    hist = StreamOf(ItemsRead, 1,
                    ContinuationTokens \ {"EqualsEqualsEquals", "BangEqualsEquals"})

\* `a === <newline> a`: the StmtEnd after `===` is emitted.
StmtEndAfterRefEqEmitted ==
    /\ last.items = <<"Ident", "EqualsEqualsEquals", "StmtEnd", "Ident">>
    /\ hist = last.items
    /\ res = StmtOk

\* `<newline> a + <newline> <newline> a`: no StmtEnd is emitted.
StmtEndsDropped ==
    /\ last.items = <<"StmtEnd", "Ident", "Sum", "StmtEnd">>
    /\ hist = <<"Ident", "Sum">>
    /\ res = StmtOk

(***************************************************************************)
(* SpecForBody: `for [k, v] in c { <m1>; log = log + [[k, v]]; <m2>; }`    *)
(* over a list, an object or a string c of up to MaxEntries entries, with  *)
(* m1 and m2 statements that write to c or rebind it.                      *)
(***************************************************************************)

InitForBody ==
    /\ heap = <<ScopeCell(EmptyScope)>>
    /\ scopes = <<1>>
    /\ res = Idle
    /\ last = [k |-> "init"]
    /\ hist = <<>>

ContainerKinds == {"list", "object", "str"}
\* [1, 2, ..], {"a": 1, "b": 2, ..} and "ab..".
ContainerOf(kind, n) ==
    CASE kind = "list" -> ListOf([i \in 1..n |-> EInt(i)])
      [] kind = "object" -> EObject([i \in 1..n |-> Pair(EStr(<<96 + i>>), EInt(i))])
      [] kind = "str" -> EStr([i \in 1..n |-> 96 + i])
EntryPairs(kind, n) ==
    [i \in 1..n |->
        CASE kind = "list" -> <<VInt(i - 1), VInt(i)>>
          [] kind = "object" -> <<VStr(<<96 + i>>), VInt(i)>>
          [] kind = "str" -> <<VInt(i - 1), VStr(<<96 + i>>)>>]

Mutations == {"none", "set0", "set1", "insert", "replace", "grow", "clear"}
MutationStmt(kind, m) ==
    CASE m = "none" -> SExpr(ENull)
      [] m = "set0" -> SAssign(EIndex(EVar(NameC), EInt(0)), EInt(9))
      [] m = "set1" -> SAssign(EIndex(EVar(NameC), EInt(1)), EInt(9))
      [] m = "insert" -> SAssign(EIndex(EVar(NameC), EStr(<<122>>)), EInt(9))
      [] m = "replace" -> SAssign(EProp(EVar(NameC), NameA), EInt(9))
      [] m = "grow" ->
            SOpAssign(EVar(NameC), "Sum",
                      IF kind = "str" THEN EStr(<<122>>) ELSE ListOf(<<EInt(7)>>))
      [] m = "clear" -> SAssign(EVar(NameC), ListOf(<<>>))

\* `log := []; c := <container>;`
DeclareContainer(kind, n) ==
    /\ last.k = "init"
    /\ \E r \in {eval_stmts_with_scope_stack(heap, scopes,
                    <<SDeclare(EVar(NameLog), EList(<<>>, FALSE)),
                      SDeclare(EVar(NameC), ContainerOf(kind, n))>>, 1)} :
          /\ res' = r.out
          /\ heap' = r.heap
          /\ scopes' = r.scopes
    /\ last' = [k |-> "declare", kind |-> kind, n |-> n]
    /\ UNCHANGED hist

RunForBody(m1, m2) ==
    /\ last.k = "declare"
    /\ \E r \in {eval_stmt(heap, scopes,
                          SFor(EList(<<Item(EVar(NameK)), Item(EVar(NameV))>>, FALSE),
                               EVar(NameC),
                               <<MutationStmt(last.kind, m1)>> \o LogBody
                                   \o <<MutationStmt(last.kind, m2)>>))} :
          /\ res' = r.out
          /\ heap' = r.heap
          /\ scopes' = r.scopes
    /\ last' = [last EXCEPT !.k = "for"] @@ [m1 |-> m1, m2 |-> m2]
    /\ UNCHANGED hist

NextForBody ==
    \/ \E kind \in ContainerKinds, n \in 0..MaxEntries : DeclareContainer(kind, n)
    \/ \E m1, m2 \in Mutations : RunForBody(m1, m2)

SpecForBody == InitForBody /\ [][NextForBody]_vars

LoggedPairs ==
    [i \in 1..Len(Logged) |-> [j \in 1..Len(Logged[i]) |-> ValueOf(Logged[i][j])]]
IsPrefix(p, q) == Len(p) <= Len(q) /\ p = SubSeq(q, 1, Len(p))

\* C29: the loop iterates over the pairs the container had when the loop
\* was entered: writes to the container and rebinding it in the body
\* change neither the number of iterations nor the keys and values bound,
\* and there are at most as many iterations as entries at loop entry.
C29_ForIteratesEntryPairs ==
    last.k = "for" =>
        /\ res.k \in {"none", "err"}
        /\ IsPrefix(LoggedPairs, EntryPairs(last.kind, last.n))
        /\ res = StmtOk => LoggedPairs = EntryPairs(last.kind, last.n)

\* `for [k, v] in c { c["z"] = 9; log = ..; c.a = 9; }` over {"a": 1,
\* "b": 2}: two iterations with the values of entry, and c has three keys.
C29_InsertedKeyNotVisited ==
    /\ last.k = "for"
    /\ last.kind = "object"
    /\ last.n = 2
    /\ last.m1 = "insert"
    /\ last.m2 = "replace"
    /\ res = StmtOk
    /\ LoggedPairs = EntryPairs("object", 2)
    /\ Len(heap[VarNow(NameC).h].props) = 3
    /\ ValueOf(GetKey(heap[VarNow(NameC).h].props, NameA)) = VInt(9)

\* `for [k, v] in c { c[1] = 9; log = ..; }` over [1, 2]: the second
\* iteration binds v to 2.
C29_ReplacedElementNotSeen ==
    /\ last.k = "for"
    /\ last.kind = "list"
    /\ last.n = 2
    /\ last.m1 = "set1"
    /\ res = StmtOk
    /\ LoggedPairs = EntryPairs("list", 2)
    /\ ValueOf(heap[VarNow(NameC).h].items[2]) = VInt(9)

(***************************************************************************)
(* SpecPartial: `<pattern> := rhs` and `<pattern> = rhs` for list and      *)
(* object patterns of up to MaxTargets elements of TargetKinds, some of    *)
(* which fail, on [1, [20, 21], 3, ..] and {"a": 1, "b": [20, 21], ..}.    *)
(***************************************************************************)

InitPartial ==
    /\ heap = <<ScopeCell(EmptyScope)>>
    /\ scopes = <<1>>
    /\ res = Idle
    /\ last = [k |-> "init"]
    /\ hist = <<>>

\* The names p1, p2, .., and the names u and w that are never declared
\* before the statement.
TargetName(i) == <<112, 48 + i>>
TargetNames == {TargetName(i) : i \in 1..MaxTargets} \cup {NameU, NameW}
TargetKinds == {"var", "dup", "literal", "nested1", "nested2", "undeclared", "underscore"}
Target(kind, i) ==
    CASE kind = "var" -> EVar(TargetName(i))
      [] kind = "dup" -> EVar(TargetName(1))
      [] kind = "literal" -> EInt(0)
      [] kind = "nested1" -> ListOf(<<EVar(TargetName(i))>>)
      [] kind = "nested2" -> ListOf(<<EVar(TargetName(i)), EVar(NameW)>>)
      [] kind = "undeclared" -> EVar(NameU)
      [] kind = "underscore" -> EVar(Underscore)
RhsItem(i) == IF i = 2 THEN ListOf(<<EInt(20), EInt(21)>>) ELSE EInt(i)
RhsKey(i) == <<96 + i>>
PartialRhs(form, n) ==
    IF form = "list" THEN ListOf([i \in 1..n |-> RhsItem(i)])
    ELSE EObject([i \in 1..n |-> Pair(EStr(RhsKey(i)), RhsItem(i))])
PartialPattern(form, kinds, collect) ==
    IF form = "list"
    THEN EList([i \in 1..Len(kinds) |-> Item(Target(kinds[i], i))], collect)
    ELSE EObject([i \in 1..Len(kinds) |-> Pair(EStr(RhsKey(i)), Target(kinds[i], i))])

\* Nothing for a declaration; `p1 := 0; p2 := 0; ..` for an assignment.
Prepare(bind_type) ==
    /\ last.k = "init"
    /\ \E r \in {eval_stmts_with_scope_stack(heap, scopes,
                    IF bind_type = Assignment
                    THEN [i \in 1..MaxTargets |-> SDeclare(EVar(TargetName(i)), EInt(0))]
                    ELSE <<>>, 1)} :
          /\ res' = r.out
          /\ heap' = r.heap
          /\ scopes' = r.scopes
    /\ last' = [k |-> "prepared", bind_type |-> bind_type]
    /\ UNCHANGED hist

DestructurePartial(form, n, kinds, collect) ==
    /\ last.k = "prepared"
    /\ form = "object" => ~collect
    /\ \E r \in {eval_stmt(heap, scopes,
                          IF last.bind_type = Declaration
                          THEN SDeclare(PartialPattern(form, kinds, collect),
                                        PartialRhs(form, n))
                          ELSE SAssign(PartialPattern(form, kinds, collect),
                                       PartialRhs(form, n)))} :
          /\ res' = r.out
          /\ heap' = r.heap
          /\ scopes' = r.scopes
    /\ last' = [k |-> "destructured", bind_type |-> last.bind_type, form |-> form,
                n |-> n, kinds |-> kinds, collect |-> collect]
    /\ UNCHANGED hist

NextPartial ==
    \/ \E bind_type \in {Declaration, Assignment} : Prepare(bind_type)
    \/ /\ last.k = "prepared"
       /\ \E form \in {"list", "object"}, n \in 1..MaxTargets,
             kinds \in SeqsUpTo(TargetKinds, MaxTargets) \ {<<>>}, collect \in BOOLEAN :
             DestructurePartial(form, n, kinds, collect)

SpecPartial == InitPartial /\ [][NextPartial]_vars

\* A value with the items of its lists in place of the handles.
RECURSIVE Deep(_, _)
Deep(h, v) ==
    IF v.t = "list"
    THEN [t |-> "list", items |-> [i \in 1..Len(h[v.h].items) |-> Deep(h, h[v.h].items[i])]]
    ELSE ValueOf(v)
NotBound == [t |-> "unbound"]
NowBound(name) ==
    IF get(heap, scopes, name).some THEN Deep(heap, get(heap, scopes, name).v)
    ELSE NotBound
Before(bind_type, name) ==
    IF bind_type = Assignment /\ name \notin {NameU, NameW} THEN VInt(0) ELSE NotBound

\* The value an element is given, and the binds it makes one after the
\* other: a name and its value, or the failure of the element.
DeepList(items) == [t |-> "list", items |-> items]
DeepRhs(i) == IF i = 2 THEN DeepList(<<VInt(20), VInt(21)>>) ELSE VInt(i)
Given(l, i) ==
    IF l.form = "object" THEN (IF i <= l.n THEN Some(DeepRhs(i)) ELSE None)
    ELSE IF l.collect /\ i = Len(l.kinds)
        THEN Some(DeepList([j \in 1..(l.n - i + 1) |-> DeepRhs(i + j - 1)]))
    ELSE Some(DeepRhs(i))
Fails == [fail |-> TRUE]
Binds(name, v) == [fail |-> FALSE, name |-> name, v |-> v]
StepsOf(l, i) ==
    With([g \in {Given(l, i)}, kind \in {l.kinds[i]} |->
        IF ~g.some THEN <<Fails>>
        ELSE CASE kind = "var" -> <<Binds(TargetName(i), g.v)>>
               [] kind = "dup" -> <<Binds(TargetName(1), g.v)>>
               [] kind = "literal" -> <<Fails>>
               [] kind = "nested1" ->
                     IF g.v.t = "list" /\ Len(g.v.items) = 1
                     THEN <<Binds(TargetName(i), g.v.items[1])>> ELSE <<Fails>>
               [] kind = "nested2" ->
                     IF g.v.t = "list" /\ Len(g.v.items) = 2
                     THEN <<Binds(TargetName(i), g.v.items[1]), Binds(NameW, g.v.items[2])>>
                     ELSE <<Fails>>
               [] kind = "undeclared" -> <<Binds(NameU, g.v)>>
               [] kind = "underscore" -> <<>>])
RECURSIVE AllSteps(_, _)
AllSteps(l, i) == IF i > Len(l.kinds) THEN <<>> ELSE StepsOf(l, i) \o AllSteps(l, i + 1)

\* The binds made one at a time until one fails: a name bound before in
\* the statement, or assigned to without a declaration, fails.
RECURSIVE BoundBy(_, _, _, _, _)
BoundBy(bind_type, steps, j, seen, env) ==
    IF j > Len(steps) THEN [failed |-> FALSE, env |-> env]
    ELSE IF steps[j].fail THEN [failed |-> TRUE, env |-> env]
    ELSE IF steps[j].name \in seen THEN [failed |-> TRUE, env |-> env]
    ELSE IF env[steps[j].name] = NotBound /\ bind_type = Assignment
        THEN [failed |-> TRUE, env |-> env]
    ELSE BoundBy(bind_type, steps, j + 1, seen \cup {steps[j].name},
                 [env EXCEPT ![steps[j].name] = steps[j].v])
LeftToRight(l) ==
    BoundBy(l.bind_type, AllSteps(l, 1), 1, {},
            [name \in TargetNames |-> Before(l.bind_type, name)])
LengthMismatch(l) ==
    /\ l.form = "list"
    /\ IF l.collect THEN Len(l.kinds) - 1 > l.n ELSE Len(l.kinds) # l.n

\* C30: the elements of a pattern are bound one at a time from left to
\* right with no roll back: when an element fails, the names bound to its
\* left keep the values they were given; a top-level length mismatch
\* fails before any name is bound.
C30_DestructureNotRolledBack ==
    last.k = "destructured" =>
        IF LengthMismatch(last) THEN
            /\ res.k = "err"
            /\ ErrorKind(res) \in {"ListDestructureItemMismatch", "ListCollectTooFew"}
            /\ \A name \in TargetNames : NowBound(name) = Before(last.bind_type, name)
        ELSE With([bound \in {LeftToRight(last)} |->
            /\ res = StmtOk <=> ~bound.failed
            /\ bound.failed => res.k = "err"
            /\ \A name \in TargetNames : NowBound(name) = bound.env[name]])

\* `[p1, [p2, w], p3] = [1, [20, 21], 3]` with w not declared: p1 is 1,
\* p2 is 20 and p3 is still 0.
C30_LeftOfFailureBound ==
    /\ last.k = "destructured"
    /\ last.bind_type = Assignment
    /\ last.form = "list"
    /\ last.n = 3
    /\ last.kinds = <<"var", "nested2", "var">>
    /\ ~last.collect
    /\ res.k = "err"
    /\ NowBound(TargetName(1)) = VInt(1)
    /\ NowBound(TargetName(2)) = VInt(20)
    /\ NowBound(TargetName(3)) = VInt(0)

\* `{"a": p1, "b": p1} := {"a": 1, "b": [20, 21]}`: p1 is declared as 1.
C30_DuplicateAfterDeclared ==
    /\ last.k = "destructured"
    /\ last.bind_type = Declaration
    /\ last.form = "object"
    /\ last.kinds = <<"var", "dup">>
    /\ res.k = "err"
    /\ ErrorKind(res) = "AlreadyInBinding"
    /\ NowBound(TargetName(1)) = VInt(1)

====
